---- MODULE Spec2Model ----
(***************************************************************************)
(* Container cost calculator: the landed-cost allocator (src/app.py), the   *)
(* product matcher (src/matcher.py) and the CI/PL merge (src/parsers.py).   *)
(*                                                                          *)
(* Python floats are modelled as exact rationals <<n, d>> with d > 0, kept  *)
(* in lowest terms; round(x, k) is modelled as rounding to the nearest      *)
(* multiple of 10^-k (ties to even) and yields the integer count of 10^-k   *)
(* units.  Text is modelled as a sequence of one-character strings.         *)
(***************************************************************************)
EXTENDS Integers, Sequences, FiniteSets, TLC

VARIABLES
    supplier_orders,   \* calculate_landed_costs: the supplier_orders argument
    container_info,    \* calculate_landed_costs: the container_info argument
    import_duties,     \* calculate_landed_costs: the import_duties argument
    results,           \* the rows calculate_landed_costs returned
    calculated,        \* TRUE once calculate_landed_costs has returned
    motherbase,            \* ProductMatcher.motherbase: the catalog rows
    ean_index,             \* ProductMatcher.ean_index
    external_code_index,   \* ProductMatcher.external_code_index
    internal_code_index,   \* ProductMatcher.internal_code_index
    simplified_id_index,   \* ProductMatcher.simplified_id_index
    call,                  \* the last call made on the matcher and its arguments
    returned,              \* what that call returned
    previous,              \* what the call before returned, when it was the same match call
    ci_items,              \* the caller's list of commercial-invoice LineItems
    pl_items,              \* the packing-list LineItems given to the last merge_ci_pl
    merged,                \* what the last merge_ci_pl returned
    ci_before,             \* ci_items as they were when the last merge_ci_pl was called
    summary,               \* what get_match_summary returned for the results now held
    summarized,            \* the results list it was given
    document,              \* the DataFrame of the uploaded document
    parser,                \* the parser function last called on it
    parsed                 \* what that call returned

alloc_vars == <<supplier_orders, container_info, import_duties, results, calculated>>

indices == <<ean_index, external_code_index, internal_code_index, simplified_id_index>>

matcher_vars == <<motherbase, indices, call, returned, previous>>

summary_vars == <<summary, summarized>>

merge_vars == <<ci_items, pl_items, merged, ci_before>>

parse_vars == <<document, parser, parsed>>

vars == <<alloc_vars, matcher_vars, merge_vars, summary_vars, parse_vars>>

(***************************************************************************)
(* Bounds of the model.                                                     *)
(***************************************************************************)
MaxLineItems == 3
MaxRows == 2
MaxBatch == 3
MaxCi == 2
MaxPl == 3
MaxFrameRows == 4

(***************************************************************************)
(* Rational arithmetic standing for Python float arithmetic.                *)
(***************************************************************************)
Abs(x) == IF x < 0 THEN -x ELSE x

RECURSIVE Gcd(_, _)
Gcd(a, b) == IF b = 0 THEN a ELSE Gcd(b, a % b)

Rat(n, d) ==
    LET g == Gcd(Abs(n), Abs(d))
        s == IF d < 0 THEN -1 ELSE 1
    IN  IF n = 0 THEN <<0, 1>> ELSE <<(s * n) \div g, (s * d) \div g>>

Zero == Rat(0, 1)
FromInt(i) == Rat(i, 1)
RatAdd(x, y) == Rat(x[1] * y[2] + y[1] * x[2], x[2] * y[2])
RatMul(x, y) == Rat(x[1] * y[1], x[2] * y[2])
RatDiv(x, y) == Rat(x[1] * y[2], x[2] * y[1])
RatPos(x) == x[1] > 0
RatIsZero(x) == x[1] = 0

\* The quotient and remainder of (q + r / d) * scale, one decimal digit at a time.
RECURSIVE Scaled(_, _, _, _)
Scaled(q, r, d, scale) ==
    IF scale = 1 THEN <<q, r>>
    ELSE Scaled(q * 10 + (r * 10) \div d, (r * 10) % d, d, scale \div 10)

\* round(x, k) with scale = 10^k: the nearest integer to x * scale, ties to even.
Round(x, scale) ==
    LET s == Scaled(x[1] \div x[2], x[1] % x[2], x[2], scale)
        q == s[1]
        r == s[2]
    IN  IF 2 * r < x[2] THEN q
        ELSE IF 2 * r > x[2] THEN q + 1
        ELSE IF q % 2 = 0 THEN q ELSE q + 1

\* dict.get(key, default)
Get(d, key, default) == IF key \in DOMAIN d THEN d[key] ELSE default

\* Python's None where a dict (a payment, a match result) may stand.
None == [none |-> TRUE]

(***************************************************************************)
(* Text: a str is a sequence of one-character strings; a missing cell of    *)
(* the catalog (pandas NaN) is the value NaN.                               *)
(***************************************************************************)
LowerLetters == <<"a", "b", "c", "d", "e", "f", "g", "h", "i", "j", "k", "l", "m", "n", "o", "p", "q", "r", "s", "t", "u", "v", "w", "x", "y", "z">>
UpperLetters == <<"A", "B", "C", "D", "E", "F", "G", "H", "I", "J", "K", "L", "M", "N", "O", "P", "Q", "R", "S", "T", "U", "V", "W", "X", "Y", "Z">>
Digits == {"0", "1", "2", "3", "4", "5", "6", "7", "8", "9"}
Range(f) == {f[i] : i \in DOMAIN f}

NaN == <<"NaN">>
isna(v) == v = NaN
str(v) == IF v = NaN THEN <<"n", "a", "n">> ELSE v

UpperChar(c) ==
    IF c \in Range(LowerLetters)
    THEN UpperLetters[CHOOSE i \in 1..26 : LowerLetters[i] = c] ELSE c
LowerChar(c) ==
    IF c \in Range(UpperLetters)
    THEN LowerLetters[CHOOSE i \in 1..26 : UpperLetters[i] = c] ELSE c
upper(t) == [i \in 1..Len(t) |-> UpperChar(t[i])]
lower(t) == [i \in 1..Len(t) |-> LowerChar(t[i])]

RECURSIVE lstrip(_)
lstrip(t) == IF t # <<>> /\ Head(t) = " " THEN lstrip(Tail(t)) ELSE t
RECURSIVE rstrip(_)
rstrip(t) == IF t # <<>> /\ t[Len(t)] = " " THEN rstrip(SubSeq(t, 1, Len(t) - 1)) ELSE t
strip(t) == rstrip(lstrip(t))

\* sub in t
Contains(sub, t) ==
    \E i \in 0..(Len(t) - Len(sub)) : SubSeq(t, i + 1, i + Len(sub)) = sub

isdigit(t) == t # <<>> /\ \A i \in 1..Len(t) : t[i] \in Digits

\* t.replace(old, new), old not empty: every occurrence, left to right.
RECURSIVE replace(_, _, _)
replace(t, old, new) ==
    IF Len(t) < Len(old) THEN t
    ELSE IF SubSeq(t, 1, Len(old)) = old
         THEN new \o replace(SubSeq(t, Len(old) + 1, Len(t)), old, new)
         ELSE <<Head(t)>> \o replace(Tail(t), old, new)

\* re.sub(r'[^A-Z0-9]', '', str(text).upper()), '' for a missing value
normalize(text) ==
    IF isna(text) THEN <<>>
    ELSE SelectSeq(upper(str(text)), LAMBDA c : c \in Range(UpperLetters) \cup Digits)

(***************************************************************************)
(* similarity: difflib.SequenceMatcher(None, a.lower(), b.lower()).ratio()  *)
(* Positions are 0-based and ranges half-open, as in difflib.               *)
(***************************************************************************)
\* The length of the common run of a and b starting at a[i], b[j].
RECURSIVE RunLen(_, _, _, _, _, _)
RunLen(a, b, i, j, ahi, bhi) ==
    IF i < ahi /\ j < bhi /\ a[i + 1] = b[j + 1] THEN 1 + RunLen(a, b, i + 1, j + 1, ahi, bhi)
    ELSE 0

\* find_longest_match: <<i, j, k>>, the longest block, of those the one starting
\* earliest in a, of those the one starting earliest in b.
find_longest_match(a, b, alo, ahi, blo, bhi) ==
    LET starts == (alo..(ahi - 1)) \X (blo..(bhi - 1))
        sizes == {<<ij, RunLen(a, b, ij[1], ij[2], ahi, bhi)>> : ij \in starts}
        k == CHOOSE n \in {s[2] : s \in sizes} : \A s \in sizes : s[2] <= n
        longest == {s[1] : s \in {t \in sizes : t[2] = k}}
        i == CHOOSE n \in {ij[1] : ij \in longest} : \A ij \in longest : n <= ij[1]
        j == CHOOSE n \in {ij[2] : ij \in {s \in longest : s[1] = i}} :
                 \A ij \in longest : ij[1] = i => n <= ij[2]
    IN  IF starts = {} \/ k = 0 THEN <<alo, blo, 0>> ELSE <<i, j, k>>

\* get_matching_blocks: the total size of the blocks.
RECURSIVE MatchingSize(_, _, _, _, _, _)
MatchingSize(a, b, alo, ahi, blo, bhi) ==
    LET m == find_longest_match(a, b, alo, ahi, blo, bhi)
        i == m[1]
        j == m[2]
        k == m[3]
    IN  IF k = 0 THEN 0
        ELSE k + (IF alo < i /\ blo < j THEN MatchingSize(a, b, alo, i, blo, j) ELSE 0)
               + (IF i + k < ahi /\ j + k < bhi
                  THEN MatchingSize(a, b, i + k, ahi, j + k, bhi) ELSE 0)

\* ratio(): 2.0 * matches / length, 1.0 when both are empty
ratio(a, b) ==
    IF Len(a) + Len(b) = 0 THEN FromInt(1)
    ELSE Rat(2 * MatchingSize(a, b, 0, Len(a), 0, Len(b)), Len(a) + Len(b))

similarity(a, b) == ratio(lower(a), lower(b))

RatLess(x, y) == x[1] * y[2] < y[1] * x[2]
\* min as it would be if it kept its first argument
RatMinUncapped(x, y) == x

RatMin(x, y) == IF RatLess(y, x) THEN y ELSE x

(***************************************************************************)
(* ProductMatcher.  A dict is the sequence of its <<key, value>> items in   *)
(* insertion order.  A catalog row is known by its position (from 1) in     *)
(* motherbase: iterrows' label and iloc's position, which agree on a        *)
(* DataFrame as read from a file.                                           *)
(***************************************************************************)
DictHas(d, k) == \E n \in 1..Len(d) : d[n][1] = k
DictGet(d, k) == d[CHOOSE n \in 1..Len(d) : d[n][1] = k][2]
\* d[k] = v: a new key goes last, a known key keeps its place and takes the value
DictSet(d, k, v) ==
    IF DictHas(d, k) THEN [n \in 1..Len(d) |-> IF d[n][1] = k THEN <<k, v>> ELSE d[n]]
    ELSE Append(d, <<k, v>>)

\* self.ean_index after the rows from idx on are read into d
RECURSIVE BuildEanIndex(_, _, _)
BuildEanIndex(rows, idx, d) ==
    IF idx > Len(rows) THEN d
    ELSE LET ean == strip(str(rows[idx].EAN))
         IN  BuildEanIndex(rows, idx + 1,
                 IF ean # <<>> /\ ean # <<"n", "a", "n">> THEN DictSet(d, ean, idx) ELSE d)

\* the three indices keyed by normalize(row[column])
RECURSIVE BuildCodeIndex(_, _, _, _)
BuildCodeIndex(rows, column, idx, d) ==
    IF idx > Len(rows) THEN d
    ELSE LET code == normalize(rows[idx][column])
         IN  BuildCodeIndex(rows, column, idx + 1,
                 IF code # <<>> THEN DictSet(d, code, idx) ELSE d)

\* _build_indices: <<ean_index, external_code_index, internal_code_index,
\* simplified_id_index>>
build_indices(rows) ==
    <<BuildEanIndex(rows, 1, <<>>),
      BuildCodeIndex(rows, "ExternalCode", 1, <<>>),
      BuildCodeIndex(rows, "InternalCode", 1, <<>>),
      BuildCodeIndex(rows, "SimplifiedId", 1, <<>>)>>

\* A call that raised instead of returning.
Raised == [raised |-> TRUE]

\* a call that returned a MatchResult
Found(r) == r # None /\ r # Raised

\* int(x) for a number x: truncation towards zero
Trunc(x) == IF x[1] >= 0 THEN x[1] \div x[2] ELSE -((-x[1]) \div x[2])

\* _get_result.  float(row.get('CBM', 0) or 0) and int(row.get('Box amount', 0)
\* or 0): a missing cell is NaN, which is truthy, and int(NaN) raises.  idx is
\* a history field telling which row the result was made from.
get_result(rows, idx, confidence, method) ==
    IF isna(rows[idx].BoxAmount) THEN Raised
    ELSE [ean |-> str(rows[idx].EAN),
          title |-> str(rows[idx].Title),
          category |-> str(rows[idx].Category),
          supplier |-> str(rows[idx].Supplier),
          internal_code |-> str(rows[idx].InternalCode),
          external_code |-> str(rows[idx].ExternalCode),
          cbm |-> rows[idx].CBM,
          box_amount |-> Trunc(rows[idx].BoxAmount),
          confidence |-> confidence,
          match_method |-> method,
          idx |-> idx]

PRODUCT_NAME_MAPPINGS ==
    <<<<<<"p", "o", "w", "e", "r", " ", "s", "7">>, <<"V", "S", "0", "7", "1", "1">>>>,
      <<<<"p", "o", "w", "e", "r", " ", "s", "8">>, <<"V", "S", "0", "8", "1", "1">>>>,
      <<<<"p", "o", "w", "e", "r", " ", "s", "9">>, <<"V", "S", "0", "9", "1", "1">>>>,
      <<<<"p", "o", "w", "e", "r", " ", "s", "1", "2">>, <<"V", "S", "1", "2", "1", "1">>>>,
      <<<<"p", "o", "w", "e", "r", " ", "s", "1", "2", "c">>, <<"V", "S", "1", "2", "C">>>>,
      <<<<"p", "o", "w", "e", "r", " ", "s", "6", "5">>, <<"V", "S", "6", "5", "1", "1">>>>,
      <<<<"p", "o", "w", "e", "r", " ", "s", "1", "0", "0">>, <<"V", "S", "1", "0", "0", "1", "1">>>>,
      <<<<"p", "o", "w", "e", "r", " ", "c", "u", "b", "e", " ", "s", "5">>, <<"V", "S", "0", "5", "1", "1">>>>,
      <<<<"p", "o", "w", "e", "r", " ", "c", "u", "b", "e", " ", "s", "6">>, <<"V", "S", "0", "6", "1", "1">>>>,
      <<<<"p", "o", "w", "e", "r", " ", "c", "u", "b", "e", " ", "s", "6", "-", "w">>, <<"V", "S", "0", "6", "2", "1">>>>,
      <<<<"p", "o", "w", "e", "r", " ", "c", "u", "b", "e", " ", "s", "6", "-", "5", "m">>, <<"V", "S", "0", "6", "5", "1">>>>,
      <<<<"p", "o", "w", "e", "r", " ", "c", "u", "b", "e", " ", "s", "6", "-", "3", "m">>, <<"V", "S", "0", "6", "3", "1">>>>,
      <<<<"s", "p", "l", "i", "t", " ", "x", "2">>, <<"V", "X", "0", "2", "1", "2">>>>,
      <<<<"s", "p", "l", "i", "t", " ", "x", "3">>, <<"V", "X", "0", "3", "1", "2">>>>,
      <<<<"s", "p", "l", "i", "t", " ", "x", "4">>, <<"V", "X", "0", "4", "1", "2">>>>,
      <<<<"s", "p", "l", "i", "t", " ", "x", "7">>, <<"V", "X", "0", "7", "1", "2">>>>,
      <<<<"p", "o", "w", "e", "r", " ", "s", "2">>, <<"V", "S", "0", "2", "1", "1">>>>,
      <<<<"o", "f", "f", "i", "c", "e", " ", "t", "3">>, <<"V", "T", "0", "3", "1", "1">>>>,
      <<<<"t", "r", "a", "v", "e", "l", " ", "y", "7", "1", "1">>, <<"V", "Y", "7", "1", "1">>>>,
      <<<<"t", "r", "a", "v", "e", "l", " ", "y", "7", "1", "2">>, <<"V", "Y", "7", "1", "2">>>>,
      <<<<"t", "r", "a", "v", "e", "l", " ", "y", "7", "1", "3">>, <<"V", "Y", "7", "1", "3">>>>,
      <<<<"t", "r", "a", "v", "e", "l", " ", "y", "7", "1", "4">>, <<"V", "Y", "7", "1", "4">>>>>>

colors ==
    <<<<<<"z", "w", "a", "r", "t">>, <<"b", "l", "a", "c", "k">>>>,
      <<<<"w", "i", "t">>, <<"w", "h", "i", "t", "e">>>>,
      <<<<"g", "r", "i", "j", "s">>, <<"g", "r", "e", "y">>>>,
      <<<<"z", "i", "l", "v", "e", "r">>, <<"s", "i", "l", "v", "e", "r">>>>>>

\* the mapped codes of the aliases found in text_lower, in the table's order
RECURSIVE MappedCodes(_, _)
MappedCodes(text_lower, n) ==
    IF n > Len(PRODUCT_NAME_MAPPINGS) THEN <<>>
    ELSE (IF Contains(PRODUCT_NAME_MAPPINGS[n][1], text_lower)
          THEN <<PRODUCT_NAME_MAPPINGS[n][2]>> ELSE <<>>)
         \o MappedCodes(text_lower, n + 1)

\* the colour variations of text_lower, Dutch to English and back
RECURSIVE ColorVariations(_, _)
ColorVariations(text_lower, n) ==
    IF n > Len(colors) THEN <<>>
    ELSE (IF Contains(colors[n][1], text_lower)
          THEN <<replace(text_lower, colors[n][1], colors[n][2])>> ELSE <<>>)
         \o (IF Contains(colors[n][2], text_lower)
             THEN <<replace(text_lower, colors[n][2], colors[n][1])>> ELSE <<>>)
         \o ColorVariations(text_lower, n + 1)

\* The first search term: the text itself.
OwnTerm(text) == <<text>>

expand_search_text(text) ==
    OwnTerm(text) \o MappedCodes(strip(lower(text)), 1) \o ColorVariations(strip(lower(text)), 1)

\* the test as it would be if every supplier passed it
SupplierMatchesAny(rows, idx, supplier_hint) == TRUE

\* if supplier_hint: ... supplier_hint.lower() in str(row Supplier).lower()
SupplierMatches(rows, idx, supplier_hint) ==
    Contains(lower(supplier_hint), lower(str(rows[idx].Supplier)))

\* Where a loop with a return stops: the first position of flags that is TRUE,
\* 0 when there is none.
FirstTrue(flags) ==
    IF \E n \in 1..Len(flags) : flags[n]
    THEN CHOOSE n \in 1..Len(flags) : flags[n] /\ \A m \in 1..(n - 1) : ~flags[m]
    ELSE 0

\* Strategy 4's test on one item of external_code_index
PartialExternal(rows, item, search_normalized, supplier_hint) ==
    /\ Contains(search_normalized, item[1]) \/ Contains(item[1], search_normalized)
    /\ supplier_hint # <<>> => SupplierMatches(rows, item[2], supplier_hint)

\* Strategy 5's two tests on one item of simplified_id_index
SimplifiedSimilar(item, search_normalized) ==
    RatLess(Rat(8, 10), similarity(search_normalized, item[1]))
SimplifiedContained(item, search_normalized) == Contains(item[1], search_normalized)

\* Strategy 6's score of one row
TitleScore(rows, idx, search_text, supplier_hint) ==
    RatAdd(similarity(search_text, str(rows[idx].Title)),
           IF supplier_hint # <<>> /\ SupplierMatches(rows, idx, supplier_hint)
           THEN Rat(1, 10) ELSE Zero)

\* Strategy 6's loop from row idx on: <<best_match, best_score>>, best_match 0
\* for None
RECURSIVE BestTitle(_, _, _, _, _)
BestTitle(rows, idx, search_text, supplier_hint, best) ==
    IF idx > Len(rows) THEN best
    ELSE LET score == TitleScore(rows, idx, search_text, supplier_hint)
         IN  BestTitle(rows, idx + 1, search_text, supplier_hint,
                       IF RatLess(best[2], score) THEN <<idx, score>> ELSE best)

\* ProductMatcher.match on a matcher holding rows and the indices ix
Match(rows, ix, text, supplier_hint) ==
    IF text = <<>> \/ isna(text) THEN None
    ELSE
    LET search_text == strip(str(text))
        search_normalized == normalize(search_text)
        search_terms == expand_search_text(search_text)
        mapped == FirstTrue([n \in 1..Len(search_terms) |->
                                DictHas(ix[3], normalize(search_terms[n]))])
        partial == FirstTrue([n \in 1..Len(ix[2]) |->
                                 PartialExternal(rows, ix[2][n], search_normalized,
                                                 supplier_hint)])
        simplified == FirstTrue([n \in 1..Len(ix[4]) |->
                                    \/ SimplifiedSimilar(ix[4][n], search_normalized)
                                    \/ SimplifiedContained(ix[4][n], search_normalized)])
        best == BestTitle(rows, 1, search_text, supplier_hint, <<0, Rat(5, 10)>>)
    IN  IF mapped # 0
        THEN get_result(rows, DictGet(ix[3], normalize(search_terms[mapped])), Rat(9, 10),
                        "mapped_internal_code")
        ELSE IF isdigit(search_text) /\ Len(search_text) = 13 /\ DictHas(ix[1], search_text)
        THEN get_result(rows, DictGet(ix[1], search_text), FromInt(1), "exact_ean")
        ELSE IF DictHas(ix[2], search_normalized)
        THEN get_result(rows, DictGet(ix[2], search_normalized), Rat(95, 100),
                        "exact_external_code")
        ELSE IF DictHas(ix[3], search_normalized)
        THEN get_result(rows, DictGet(ix[3], search_normalized), Rat(95, 100),
                        "exact_internal_code")
        ELSE IF partial # 0
        THEN get_result(rows, ix[2][partial][2], Rat(8, 10), "partial_external_code")
        ELSE IF simplified # 0
        THEN (IF SimplifiedSimilar(ix[4][simplified], search_normalized)
              THEN get_result(rows, ix[4][simplified][2], Rat(75, 100), "simplified_id")
              ELSE get_result(rows, ix[4][simplified][2], Rat(7, 10), "partial_simplified_id"))
        ELSE IF best[1] # 0
        THEN get_result(rows, best[1], RatMin(best[2], Rat(7, 10)), "title_similarity")
        ELSE None

\* item.get('product_code') or item.get('description', '')
BatchSearchText(item) ==
    IF Get(item, "product_code", <<>>) # <<>> THEN item.product_code
    ELSE Get(item, "description", <<>>)

\* match_batch's results: one (item, match) pair per item, in the items' order
MatchBatch(rows, ix, items, supplier_hint) ==
    [n \in 1..Len(items) |->
        <<items[n], Match(rows, ix, BatchSearchText(items[n]), supplier_hint)>>]

\* a match that raised ended the batch
BatchRaises(pairs) == \E n \in 1..Len(pairs) : pairs[n][2] = Raised

NoCall == [op |-> "none"]

\* match as it would be if it remembered what it found under the searched code
matchRemembering(search_text, supplier_hint) ==
    /\ call' = [op |-> "match", search_text |-> search_text, supplier_hint |-> supplier_hint]
    /\ returned' = Match(motherbase, indices, search_text, supplier_hint)
    /\ previous' = IF call = call' THEN returned ELSE NoCall
    /\ internal_code_index' =
           IF Found(returned') /\ normalize(search_text) # <<>>
           THEN DictSet(internal_code_index, normalize(search_text), returned'.idx)
           ELSE internal_code_index
    /\ UNCHANGED <<motherbase, ean_index, external_code_index, simplified_id_index>>

\* matcher.match(search_text, supplier_hint)
match(search_text, supplier_hint) ==
    /\ call' = [op |-> "match", search_text |-> search_text, supplier_hint |-> supplier_hint]
    /\ returned' = Match(motherbase, indices, search_text, supplier_hint)
    /\ previous' = IF call = call' THEN returned ELSE NoCall
    /\ UNCHANGED <<motherbase, indices>>

\* matcher.match_batch(items, supplier_hint); a match that raises ends it
match_batch(items, supplier_hint) ==
    /\ call' = [op |-> "match_batch", items |-> items, supplier_hint |-> supplier_hint]
    /\ returned' = IF BatchRaises(MatchBatch(motherbase, indices, items, supplier_hint))
                   THEN Raised
                   ELSE [results |-> MatchBatch(motherbase, indices, items, supplier_hint)]
    /\ previous' = NoCall
    /\ UNCHANGED <<motherbase, indices>>

NoSummary == [total |-> -1]

\* the count as it would be if every result counted as matched
SummaryMatchedAll(rs) == Len(rs)

\* matched = sum(1 for _, m in results if m is not None)
SummaryMatched(rs) == Cardinality({n \in 1..Len(rs) : rs[n][2] # None})

\* high_confidence = sum(1 for _, m in results if m and m.confidence >= 0.8)
SummaryHighConfidence(rs) ==
    Cardinality({n \in 1..Len(rs) :
                    rs[n][2] # None /\ ~RatLess(rs[n][2].confidence, Rat(8, 10))})

\* by_method after the results from n on are counted into d
RECURSIVE ByMethod(_, _, _)
ByMethod(rs, n, d) ==
    IF n > Len(rs) THEN d
    ELSE ByMethod(rs, n + 1,
            IF rs[n][2] # None
            THEN DictSet(d, rs[n][2].match_method,
                         (IF DictHas(d, rs[n][2].match_method)
                          THEN DictGet(d, rs[n][2].match_method) ELSE 0) + 1)
            ELSE d)

\* the dict get_match_summary(results) returns
MatchSummary(rs) ==
    [total |-> Len(rs),
     matched |-> SummaryMatched(rs),
     unmatched |-> Len(rs) - SummaryMatched(rs),
     match_rate |-> IF Len(rs) > 0 THEN Rat(SummaryMatched(rs), Len(rs)) ELSE Zero,
     high_confidence_rate |->
         IF Len(rs) > 0 THEN Rat(SummaryHighConfidence(rs), Len(rs)) ELSE Zero,
     by_method |-> ByMethod(rs, 1, <<>>)]

\* matcher.get_match_summary(results)
get_match_summary(rs) ==
    /\ summary' = MatchSummary(rs)
    /\ summarized' = rs
    /\ UNCHANGED matcher_vars

(***************************************************************************)
(* merge_ci_pl.  A LineItem is a record of the dataclass's fields.  The CI  *)
(* items are objects of the caller: the function writes their cbm in place  *)
(* and returns a list of the same objects.                                  *)
(***************************************************************************)
\* re.sub(r'[^A-Z0-9]', '', str(code).upper())
clean_code(code) ==
    SelectSeq(upper(str(code)), LAMBDA c : c \in Range(UpperLetters) \cup Digits)

\* pl_lookup.get(key, []): the PL items of that clean code, in the list's order
PlLookup(pl, key) == SelectSeq(pl, LAMBDA item : clean_code(item.product_code) = key)

\* the sum as it would be if only the first matching PL row counted
FirstCbm(pl_matches) == pl_matches[1].cbm

\* sum(p.cbm for p in pl_matches)
RECURSIVE TotalCbm(_)
TotalCbm(pl_matches) ==
    IF pl_matches = <<>> THEN Zero
    ELSE RatAdd(TotalCbm(SubSeq(pl_matches, 1, Len(pl_matches) - 1)),
                pl_matches[Len(pl_matches)].cbm)

\* the loop body as it would be if the sum were assigned without the key test
MergedItemAlwaysAssigned(ci_item, pl) ==
    [ci_item EXCEPT !.cbm = TotalCbm(PlLookup(pl, clean_code(ci_item.product_code)))]

\* the loop body: ci_item after "if key in pl_lookup: ci_item.cbm = total_cbm"
MergedItem(ci_item, pl) ==
    IF PlLookup(pl, clean_code(ci_item.product_code)) # <<>>
    THEN [ci_item EXCEPT !.cbm = TotalCbm(PlLookup(pl, clean_code(ci_item.product_code)))]
    ELSE ci_item

\* the list merge_ci_pl(ci, pl) returns
MergeCiPl(ci, pl) == [n \in 1..Len(ci) |-> MergedItem(ci[n], pl)]

\* merged = merge_ci_pl(ci_items, pl): the caller's items are the returned ones
merge_ci_pl(pl) ==
    /\ pl_items' = pl
    /\ ci_before' = ci_items
    /\ merged' = MergeCiPl(ci_items, pl)
    /\ ci_items' = merged'

(***************************************************************************)
(* The document parsers (parsers.py).  A DataFrame is a sequence of rows,   *)
(* a row a sequence of cells, one per column, rows and columns counted from *)
(* 1 (the frame has the default index, so labels are positions).  A cell is *)
(* a str, a float or a missing value.  A LineItem is a record of the        *)
(* dataclass's fields, text fields as str; its field row is not a field of  *)
(* the dataclass: it records the row of the frame the item was made from.   *)
(***************************************************************************)
Text(t) == [text |-> t]
Num(x) == [num |-> x]
Blank == [blank |-> TRUE]

DigitChars == <<"0", "1", "2", "3", "4", "5", "6", "7", "8", "9">>

\* str(n) of an int n >= 0
RECURSIVE DigitsOf(_)
DigitsOf(n) ==
    IF n < 10 THEN <<DigitChars[n + 1]>>
    ELSE DigitsOf(n \div 10) \o <<DigitChars[(n % 10) + 1]>>

\* the decimals of r / d, r < d, for a fraction that has finitely many
RECURSIVE Decimals(_, _)
Decimals(r, d) ==
    IF r = 0 THEN <<>>
    ELSE <<DigitChars[((r * 10) \div d) + 1]>> \o Decimals((r * 10) % d, d)

\* str(v) of a cell: a str is itself, a missing value reads nan, a float is
\* written with its decimals and at least one of them ("120.0", "2.5")
StrOf(v) ==
    IF v = Blank THEN <<"n", "a", "n">>
    ELSE IF "text" \in DOMAIN v THEN v.text
    ELSE (IF v.num[1] < 0 THEN <<"-">> ELSE <<>>)
         \o DigitsOf(Abs(v.num[1]) \div v.num[2]) \o <<".">>
         \o (IF v.num[2] = 1 THEN <<"0">> ELSE Decimals(Abs(v.num[1]) % v.num[2], v.num[2]))

\* int(t) of a str of digits, 0 for the empty one
RECURSIVE IntOf(_)
IntOf(t) ==
    IF t = <<>> THEN 0
    ELSE 10 * IntOf(SubSeq(t, 1, Len(t) - 1))
         + ((CHOOSE n \in 1..10 : DigitChars[n] = t[Len(t)]) - 1)

\* float(t) of a str: a sign, digits and at most one point among them; None
\* for the ValueError of any other text (empty, letters, two points)
ParseFloat(t) ==
    LET u == IF t # <<>> /\ Head(t) \in {"-", "+"} THEN Tail(t) ELSE t
        points == {i \in 1..Len(u) : u[i] = "."}
        p == IF points = {} THEN Len(u) + 1 ELSE CHOOSE i \in points : TRUE
        whole == SubSeq(u, 1, p - 1)
        decimals == SubSeq(u, p + 1, Len(u))
    IN  IF Cardinality(points) > 1 \/ whole \o decimals = <<>>
           \/ \E i \in 1..Len(u) : u[i] \notin Digits \cup {"."}
        THEN None
        ELSE Num(Rat((IF Head(t) = "-" THEN -1 ELSE 1) * IntOf(whole \o decimals),
                     10 ^ Len(decimals)))

\* clean_number(val): Num(x) for the float x, None for no number.  The last
\* replace removes three characters (a euro sign read in the wrong encoding),
\* named here by their code points.
clean_number(val) ==
    IF val = Blank THEN None
    ELSE IF "num" \in DOMAIN val THEN val
    ELSE ParseFloat(replace(replace(replace(strip(val.text), <<",">>, <<>>),
                                    <<"$">>, <<>>),
                            <<"U+00E2", "U+201A", "U+00AC">>, <<>>))

\* ' '.join(ts)
RECURSIVE Join(_)
Join(ts) ==
    IF ts = <<>> THEN <<>>
    ELSE IF Len(ts) = 1 THEN ts[1]
    ELSE ts[1] \o <<" ">> \o Join(Tail(ts))

\* row_text = ' '.join(str(v) for v in row if pd.notna(v))
RowText(row) ==
    Join([n \in 1..Len(SelectSeq(row, LAMBDA v : v # Blank)) |->
              StrOf(SelectSeq(row, LAMBDA v : v # Blank)[n])])

\* the test as it would be if no row were a total row
IsTotalRowNever(row) == FALSE

\* "if 'total' in row_text.lower(): continue"
IsTotalRow(row) == Contains(<<"t", "o", "t", "a", "l">>, lower(RowText(row)))

(***************************************************************************)
(* The regular expressions, all searched with re.IGNORECASE.  A pattern is  *)
(* a sequence of elements, each a set of characters (in lower case) taken   *)
(* lo to hi times, hi = 0 for no upper limit.                               *)
(***************************************************************************)
Literal(t) == [n \in 1..Len(t) |-> [chars |-> {t[n]}, lo |-> 1, hi |-> 1]]

\* how many characters of t from position i on are in chars, at most cap
RECURSIVE Run(_, _, _, _)
Run(t, i, chars, cap) ==
    IF cap = 0 \/ i > Len(t) THEN 0
    ELSE IF LowerChar(t[i]) \notin chars THEN 0
    ELSE 1 + Run(t, i + 1, chars, cap - 1)

\* The elements pat[k], pat[k + 1], .. matched at position i of t, each
\* repetition as long as the rest allows: the position after the match, 0
\* when there is none.
RECURSIVE MatchEnd(_, _, _, _)
MatchEnd(t, i, pat, k) ==
    IF k > Len(pat) THEN i
    ELSE LET run == Run(t, i, pat[k].chars, IF pat[k].hi = 0 THEN Len(t) ELSE pat[k].hi)
             fits == {n \in pat[k].lo..run : MatchEnd(t, i + n, pat, k + 1) # 0}
         IN  IF fits = {} THEN 0
             ELSE MatchEnd(t, i + (CHOOSE n \in fits : \A m \in fits : m <= n), pat, k + 1)

\* re.search(alternatives, t, re.IGNORECASE): [group |-> the match], at the
\* leftmost position where an alternative matches, of the first alternative
\* that matches there; None when there is none
re_search(alternatives, t) ==
    LET hits == {i \in 1..Len(t) :
                    \E a \in 1..Len(alternatives) : MatchEnd(t, i, alternatives[a], 1) # 0}
        i == CHOOSE n \in hits : \A m \in hits : n <= m
        a == CHOOSE n \in 1..Len(alternatives) :
                 /\ MatchEnd(t, i, alternatives[n], 1) # 0
                 /\ \A m \in 1..(n - 1) : MatchEnd(t, i, alternatives[m], 1) = 0
    IN  IF hits = {} THEN None
        ELSE [group |-> SubSeq(t, i, MatchEnd(t, i, alternatives[a], 1) - 1)]

\* r'TP-[A-Z0-9-]+'
TpCode == Literal(<<"t", "p", "-">>) \o <<[chars |-> Range(LowerLetters) \cup Digits \cup {"-"}, lo |-> 1, hi |-> 0]>>
\* r'OL-[A-Z0-9-]+'
OlCode == Literal(<<"o", "l", "-">>) \o <<[chars |-> Range(LowerLetters) \cup Digits \cup {"-"}, lo |-> 1, hi |-> 0]>>
\* GenericParser.parse's product_patterns, in their order
product_patterns ==
    <<TpCode,
      OlCode,
      <<[chars |-> {"v"}, lo |-> 1, hi |-> 1], [chars |-> {"x", "s", "t", "c"}, lo |-> 1, hi |-> 1],
        [chars |-> Digits, lo |-> 4, hi |-> 4]>>,
      <<[chars |-> Range(LowerLetters), lo |-> 2, hi |-> 4], [chars |-> {"-"}, lo |-> 1, hi |-> 1],
        [chars |-> Range(LowerLetters) \cup Digits, lo |-> 4, hi |-> 0]>>>>

(***************************************************************************)
(* What the parsers share: the header search, the numbers of a row, the     *)
(* LineItem.                                                                *)
(***************************************************************************)
\* "for idx, row in df.iterrows(): if <tokens in row_text.lower()>:
\* header_row = idx; break": the last such row, as the search would be
\* without the break
LastRow(flags) ==
    IF \E n \in 1..Len(flags) : flags[n]
    THEN CHOOSE n \in 1..Len(flags) : flags[n] /\ \A m \in (n + 1)..Len(flags) : ~flags[m]
    ELSE 0

\* the header search: the first row whose flag is set, 0 for header_row = None
HeaderRow(flags) == FirstTrue(flags)

\* the loop "for val in row: num = clean_number(val); if num is not None and
\* num > 0: numbers.append(num)"
numbers(row) ==
    LET kept == SelectSeq([n \in 1..Len(row) |-> clean_number(row[n])],
                          LAMBDA c : c # None /\ RatPos(c.num))
    IN  [n \in 1..Len(kept) |-> kept[n].num]

\* sorted(nums, reverse=True)
RECURSIVE sorted_reverse(_)
sorted_reverse(nums) ==
    IF nums = <<>> THEN <<>>
    ELSE LET k == CHOOSE n \in 1..Len(nums) : \A m \in 1..Len(nums) : ~RatLess(nums[n], nums[m])
         IN  <<nums[k]>> \o sorted_reverse(SubSeq(nums, 1, k - 1) \o SubSeq(nums, k + 1, Len(nums)))

\* num == int(num)
IsWhole(num) == num[2] = 1
\* lo < num < hi
Between(lo, num, hi) == RatLess(FromInt(lo), num) /\ RatLess(num, FromInt(hi))

\* x or 0, of a slot that is None or Num(x)
OrZero(slot) == IF slot = None THEN Zero ELSE slot.num

LineItem(product_code, description, quantity, unit_price_usd, cbm, color, cartons, row) ==
    [product_code |-> product_code, description |-> description, quantity |-> quantity,
     unit_price_usd |-> unit_price_usd, cbm |-> cbm, color |-> color, cartons |-> cartons,
     gross_weight |-> Zero, net_weight |-> Zero, row |-> row]

\* the lists ss[1], ss[2], .. one after the other
RECURSIVE Concat(_)
Concat(ss) == IF ss = <<>> THEN <<>> ELSE Head(ss) \o Concat(Tail(ss))

(***************************************************************************)
(* ToporekParser.parse_ci                                                   *)
(***************************************************************************)
\* col_map.get(key): the last column the elif chain files under key, 0 for
\* None
ColMapGet(headers, key) ==
    LET h_str(h) == IF h # Blank THEN lower(StrOf(h)) ELSE <<>>
        HeaderKey(h) ==
            IF Contains(<<"d", "e", "s", "c", "r", "i", "p", "t", "i", "o", "n">>, h_str(h)) THEN "description"
            ELSE IF Contains(<<"q", "t", "y">>, h_str(h)) THEN "qty"
            ELSE IF Contains(<<"u", "n", "i", "t">>, h_str(h)) /\ Contains(<<"p", "r", "i", "c", "e">>, h_str(h)) THEN "unit_price"
            ELSE IF Contains(<<"a", "m", "o", "u", "n", "t">>, h_str(h)) THEN "amount"
            ELSE IF Contains(<<"g", ".", "w">>, h_str(h)) \/ Contains(<<"g", "r", "o", "s", "s">>, h_str(h)) THEN "gw"
            ELSE ""
        cols == {i \in 1..Len(headers) : HeaderKey(headers[i]) = key}
    IN  IF cols = {} THEN 0 ELSE CHOOSE i \in cols : \A j \in cols : j <= i

\* The body of the loop over the data rows: the items row idx appends.
\* ColumnNumber is clean_number(row[col_map[key]]) if the column is known, else
\* None; Truthy is bool(desc): a missing value is a float nan, which is true.
ToporekCiRow(row, headers, idx) ==
    LET ColumnNumber(key) ==
            IF ColMapGet(headers, key) = 0 THEN None
            ELSE clean_number(row[ColMapGet(headers, key)])
        Truthy(v) ==
            IF v = Blank THEN TRUE
            ELSE IF "text" \in DOMAIN v THEN v.text # <<>>
            ELSE ~RatIsZero(v.num)
        desc == row[ColMapGet(headers, "description")]
        qty == ColumnNumber("qty")
        unit_price == ColumnNumber("unit_price")
        amount == ColumnNumber("amount")
    IN  IF IsTotalRow(row) THEN <<>>
        ELSE IF ColMapGet(headers, "description") = 0 THEN <<>>
        ELSE IF ~Truthy(desc) \/ qty = None THEN <<>>
        ELSE IF ~RatPos(qty.num) THEN <<>>
        ELSE <<LineItem(strip(StrOf(desc)), strip(StrOf(desc)), Trunc(qty.num),
                        IF OrZero(unit_price) = Zero /\ OrZero(amount) # Zero
                        THEN RatDiv(amount.num, qty.num)
                        ELSE OrZero(unit_price),
                        Zero, <<>>, 0, idx)>>

\* The value of ToporekParser.parse_ci(df): the items, and the header row
\* the search stopped at (0 for None).
ToporekParseCi(df) ==
    LET header_row == HeaderRow([n \in 1..Len(df) |->
                          /\ Contains(<<"d", "e", "s", "c", "r", "i", "p", "t", "i", "o", "n">>, lower(RowText(df[n])))
                          /\ Contains(<<"q", "t", "y">>, lower(RowText(df[n])))])
    IN  [header_row |-> header_row,
         items |-> IF header_row = 0 THEN <<>>
                   ELSE Concat([n \in 1..(Len(df) - header_row) |->
                                   ToporekCiRow(df[header_row + n], df[header_row], header_row + n)])]

(***************************************************************************)
(* The packing-list parsers' slots: qty, cartons and cbm, each None or      *)
(* Num(x), filled from the numbers of a row, the largest first.             *)
(***************************************************************************)
RECURSIVE PlSlots(_, _, _, _)
PlSlots(nums, slots, cartons_below, cbm_below) ==
    IF nums = <<>> THEN slots
    ELSE PlSlots(Tail(nums),
                 IF IsWhole(Head(nums))
                 THEN IF slots.qty = None /\ Between(10, Head(nums), 50000)
                      THEN [slots EXCEPT !.qty = Num(Head(nums))]
                      ELSE IF slots.cartons = None /\ Between(1, Head(nums), cartons_below)
                      THEN [slots EXCEPT !.cartons = Num(Head(nums))]
                      ELSE slots
                 ELSE IF slots.cbm = None /\ Between(0, Head(nums), cbm_below)
                      THEN [slots EXCEPT !.cbm = Num(Head(nums))]
                      ELSE slots,
                 cartons_below, cbm_below)

NoSlots == [qty |-> None, cartons |-> None, cbm |-> None, unit_price |-> None]

(***************************************************************************)
(* ToporekParser.parse_pl                                                   *)
(***************************************************************************)
\* color: the first name of the list the row text holds, '' for none
ColorOf(row) ==
    LET ColorNames == <<<<"B", "l", "a", "c", "k">>, <<"W", "h", "i", "t", "e">>, <<"G", "r", "e", "y">>,
                        <<"Z", "w", "a", "r", "t">>, <<"W", "i", "t">>, <<"G", "r", "i", "j", "s">>>>
        n == FirstTrue([c \in 1..Len(ColorNames) |->
                           Contains(lower(ColorNames[c]), lower(RowText(row)))])
    IN  IF n = 0 THEN <<>> ELSE ColorNames[n]

\* The loop over the data rows from row idx on, current_product being None
\* or the match that set it: the items appended.
RECURSIVE ToporekPlRows(_, _, _)
ToporekPlRows(df, idx, current_product) ==
    IF idx > Len(df) THEN <<>>
    ELSE IF IsTotalRow(df[idx]) THEN ToporekPlRows(df, idx + 1, current_product)
    ELSE LET product_match == re_search(<<TpCode>>, RowText(df[idx]))
             current == IF product_match # None THEN product_match ELSE current_product
             slots == PlSlots(sorted_reverse(numbers(df[idx])), NoSlots, 1000, 100)
         IN  (IF current # None /\ slots.qty # None
              THEN <<LineItem(current.group,
                              strip(current.group \o <<" ">> \o ColorOf(df[idx])),
                              Trunc(slots.qty.num), Zero, OrZero(slots.cbm), ColorOf(df[idx]),
                              Trunc(OrZero(slots.cartons)), idx)>>
              ELSE <<>>)
             \o ToporekPlRows(df, idx + 1, current)

ToporekParsePl(df) ==
    LET header_row == HeaderRow([n \in 1..Len(df) |->
                          \/ Contains(<<"d", "e", "s", "c", "r", "i", "p", "t", "i", "o", "n">>, lower(RowText(df[n])))
                          \/ Contains(<<"c", "a", "r", "t", "o", "n">>, lower(RowText(df[n])))])
    IN  [header_row |-> header_row,
         items |-> IF header_row = 0 THEN <<>> ELSE ToporekPlRows(df, header_row + 1, None)]

(***************************************************************************)
(* OuliParser.parse_ci                                                      *)
(***************************************************************************)
\* "for num in numbers:", in the row's order: qty the largest whole number
\* within its band, unit_price the last other number within its band
RECURSIVE OuliCiSlots(_, _)
OuliCiSlots(nums, slots) ==
    IF nums = <<>> THEN slots
    ELSE OuliCiSlots(Tail(nums),
                     IF IsWhole(Head(nums)) /\ Between(1, Head(nums), 50000)
                     THEN IF slots.qty = None
                          THEN [slots EXCEPT !.qty = Num(Head(nums))]
                          ELSE IF RatLess(slots.qty.num, Head(nums))
                          THEN [slots EXCEPT !.qty = Num(Head(nums))]
                          ELSE slots
                     ELSE IF Between(0, Head(nums), 100)
                          THEN [slots EXCEPT !.unit_price = Num(Head(nums))]
                          ELSE slots)

\* the body of the loop over the data rows; voomy_match searches r'V[YX]\d+'
OuliCiRow(row, idx) ==
    LET product_match == re_search(<<OlCode>>, RowText(row))
        voomy_match ==
            re_search(<<<<[chars |-> {"v"}, lo |-> 1, hi |-> 1],
                          [chars |-> {"y", "x"}, lo |-> 1, hi |-> 1],
                          [chars |-> Digits, lo |-> 1, hi |-> 0]>>>>, RowText(row))
        product_code == IF product_match # None THEN product_match ELSE voomy_match
        slots == OuliCiSlots(numbers(row), NoSlots)
    IN  IF IsTotalRow(row) \/ product_code = None THEN <<>>
        ELSE IF slots.qty = None THEN <<>>
        ELSE <<LineItem(product_code.group, product_code.group, Trunc(slots.qty.num),
                        OrZero(slots.unit_price), Zero, <<>>, 0, idx)>>

OuliParseCi(df) ==
    LET header_row == HeaderRow([n \in 1..Len(df) |->
                          /\ Contains(<<"i", "t", "e", "m">>, lower(RowText(df[n])))
                          /\ \/ Contains(<<"q", "t", "y">>, lower(RowText(df[n])))
                             \/ Contains(<<"q", "u", "a", "n", "t", "i", "t", "y">>, lower(RowText(df[n])))])
    IN  [header_row |-> header_row,
         items |-> IF header_row = 0 THEN <<>>
                   ELSE Concat([n \in 1..(Len(df) - header_row) |->
                                   OuliCiRow(df[header_row + n], header_row + n)])]

(***************************************************************************)
(* OuliParser.parse_pl                                                      *)
(***************************************************************************)
\* the body of the loop over the data rows; product_match searches
\* r'(OL-[A-Z0-9-]+|Y\d{3}/OL-[A-Z0-9]+)'
OuliPlRow(row, idx) ==
    LET product_match ==
            re_search(<<OlCode,
                        <<[chars |-> {"y"}, lo |-> 1, hi |-> 1],
                          [chars |-> Digits, lo |-> 3, hi |-> 3]>>
                        \o Literal(<<"/", "o", "l", "-">>)
                        \o <<[chars |-> Range(LowerLetters) \cup Digits, lo |-> 1, hi |-> 0]>>>>,
                      RowText(row))
        slots == PlSlots(sorted_reverse(numbers(row)), NoSlots, 500, 50)
    IN  IF IsTotalRow(row) \/ product_match = None THEN <<>>
        ELSE IF slots.qty = None THEN <<>>
        ELSE <<LineItem(product_match.group, product_match.group, Trunc(slots.qty.num),
                        Zero, OrZero(slots.cbm), <<>>, Trunc(OrZero(slots.cartons)), idx)>>

OuliParsePl(df) ==
    LET header_row == HeaderRow([n \in 1..Len(df) |->
                          \/ Contains(<<"i", "t", "e", "m">>, lower(RowText(df[n])))
                          \/ Contains(<<"m", "o", "d", "e", "l">>, lower(RowText(df[n])))])
    IN  [header_row |-> header_row,
         items |-> IF header_row = 0 THEN <<>>
                   ELSE Concat([n \in 1..(Len(df) - header_row) |->
                                   OuliPlRow(df[header_row + n], header_row + n)])]

(***************************************************************************)
(* GenericParser.parse                                                      *)
(***************************************************************************)
\* The body of the loop for one row: [items |-> the items appended], or
\* Raised for the ValueError of max() over no number.  candidates are the
\* numbers the quantity is the max of: n == int(n) and n < 50000.
GenericRow(row, idx) ==
    LET SkipWords == {<<"t", "o", "t", "a", "l">>, <<"i", "n", "v", "o", "i", "c", "e">>, <<"d", "a", "t", "e">>,
                      <<"a", "d", "d", "r", "e", "s", "s">>, <<"b", "a", "n", "k">>}
        pattern == FirstTrue([p \in 1..Len(product_patterns) |->
                                 re_search(<<product_patterns[p]>>, RowText(row)) # None])
        candidates == SelectSeq(numbers(row),
                                LAMBDA n : IsWhole(n) /\ RatLess(n, FromInt(50000)))
    IN  IF \E x \in SkipWords : Contains(x, lower(RowText(row))) THEN [items |-> <<>>]
        ELSE IF pattern = 0 THEN [items |-> <<>>]
        ELSE IF numbers(row) = <<>> THEN [items |-> <<>>]
        ELSE IF candidates = <<>> THEN Raised
        ELSE IF Trunc(sorted_reverse(candidates)[1]) > 0
        THEN [items |-> <<LineItem(re_search(<<product_patterns[pattern]>>, RowText(row)).group,
                                  re_search(<<product_patterns[pattern]>>, RowText(row)).group,
                                  Trunc(sorted_reverse(candidates)[1]), Zero, Zero, <<>>, 0, idx)>>]
        ELSE [items |-> <<>>]

\* The value of GenericParser.parse(df), Raised when a row raised.
GenericParse(df) ==
    IF \E n \in 1..Len(df) : GenericRow(df[n], n) = Raised THEN Raised
    ELSE [header_row |-> 0,
          items |-> Concat([n \in 1..Len(df) |-> GenericRow(df[n], n).items])]

(***************************************************************************)
(* The calls: each parser given the document; parsed is what it returned,  *)
(* the items and the header row its search stopped at, or Raised.           *)
(***************************************************************************)
ToporekParser_parse_ci ==
    /\ parser' = "ToporekParser.parse_ci"
    /\ parsed' = ToporekParseCi(document)
    /\ UNCHANGED document

ToporekParser_parse_pl ==
    /\ parser' = "ToporekParser.parse_pl"
    /\ parsed' = ToporekParsePl(document)
    /\ UNCHANGED document

OuliParser_parse_ci ==
    /\ parser' = "OuliParser.parse_ci"
    /\ parsed' = OuliParseCi(document)
    /\ UNCHANGED document

OuliParser_parse_pl ==
    /\ parser' = "OuliParser.parse_pl"
    /\ parsed' = OuliParsePl(document)
    /\ UNCHANGED document

GenericParser_parse ==
    /\ parser' = "GenericParser.parse"
    /\ parsed' = GenericParse(document)
    /\ UNCHANGED document

\* detect_supplier_format.  text is df.to_string().lower(): the cells of the
\* frame, set apart by blanks and line ends, so a word is in text when it is
\* in the text of a row (the frame's column labels are positions).
detect_supplier_format(df) ==
    LET InText(word) == \E n \in 1..Len(df) : Contains(word, lower(RowText(df[n])))
    IN  IF InText(<<"a", "i", "n", "i", "s", "i">>) \/ InText(<<"t", "o", "p", "o", "r", "e", "k">>) THEN "toporek"
        ELSE IF InText(<<"o", "u", "l", "i">>) \/ InText(<<"o", "u", "l", "i", "y", "o">>) THEN "ouli"
        ELSE IF InText(<<"y", "o", "u", "j", "i">>) \/ InText(<<"g", "u", "a", "n", "g", "z", "h", "o", "u">>) THEN "youji"
        ELSE "generic"

\* parse_document(document, doc_type): the parser of the detected format
parse_document(doc_type) ==
    IF detect_supplier_format(document) = "toporek"
    THEN IF doc_type = "ci" THEN ToporekParser_parse_ci ELSE ToporekParser_parse_pl
    ELSE IF detect_supplier_format(document) = "ouli"
    THEN IF doc_type = "ci" THEN OuliParser_parse_ci ELSE OuliParser_parse_pl
    ELSE GenericParser_parse

(***************************************************************************)
(* DEFAULT_CATEGORIES, the built-in duty table.                             *)
(***************************************************************************)
DEFAULT_CATEGORIES ==
    [c \in {"Stekkerdoos", "Verdeelstekker", "Reisstekker", "Laptop Stand", "Kabel",
            "Powerbank", "Snellader", "Hub", "Draadloze oplader", "Other"} |->
        [duty_rate |-> CASE c \in {"Stekkerdoos", "Verdeelstekker", "Reisstekker"} -> Rat(27, 10)
                         [] c = "Laptop Stand" -> Rat(6, 1)
                         [] OTHER -> Zero,
         hs_code |-> CASE c \in {"Stekkerdoos", "Verdeelstekker", "Reisstekker"} -> "8536690000"
                       [] c = "Laptop Stand" -> "7616999000"
                       [] c = "Kabel" -> "8544429000"
                       [] c = "Powerbank" -> "8507600000"
                       [] c \in {"Snellader", "Draadloze oplader"} -> "8504409000"
                       [] c = "Hub" -> "8471800000"
                       [] OTHER -> ""]]

(***************************************************************************)
(* calculate_landed_costs                                                   *)
(***************************************************************************)
RECURSIVE SumSeq(_)
SumSeq(s) == IF s = <<>> THEN Zero ELSE RatAdd(Head(s), SumSeq(Tail(s)))

LineItemsOf(order) == Get(order, "line_items", <<>>)

\* total_order_usd: the sum runs over every line item of the order.
TotalOrderUsd(order) ==
    SumSeq([i \in 1..Len(LineItemsOf(order)) |->
              RatMul(FromInt(Get(LineItemsOf(order)[i], "quantity", 0)),
                     Get(LineItemsOf(order)[i], "unit_price_usd", Zero))])

\* One payment's contribution: amount_usd * fx_rate, nothing for a falsy slot.
PaymentEur(order, slot) ==
    IF Get(order, slot, None) = None THEN Zero
    ELSE RatMul(Get(order[slot], "amount_usd", Zero), Get(order[slot], "fx_rate", FromInt(1)))

TotalPaidEur(order) == RatAdd(PaymentEur(order, "payment_1"), PaymentEur(order, "payment_2"))

\* the total as it would be without the "or 1"
TotalContainerCbmAsGiven(info) == Get(info, "total_cbm", Zero)

\* total_container_cbm = container_info.get('total_cbm', 0) or 1
TotalContainerCbm(info) ==
    IF RatIsZero(Get(info, "total_cbm", Zero)) THEN FromInt(1) ELSE Get(info, "total_cbm", Zero)

\* total_freight_eur = container_info.get('total_freight_eur', 0) or 0
TotalFreightEur(info) == Get(info, "total_freight_eur", Zero)

\* Mutant of Skipped: only negative quantities are skipped, a zero quantity
\* gets a zero-filled row.
SkippedNegativeOnly(qty) == qty < 0

\* if qty <= 0: continue
Skipped(qty) == qty <= 0

ValueProportion(item, order) ==
    IF RatPos(TotalOrderUsd(order))
    THEN RatDiv(RatMul(FromInt(Get(item, "quantity", 0)), Get(item, "unit_price_usd", Zero)),
                TotalOrderUsd(order))
    ELSE Zero

ProductCostPerUnit(item, order) ==
    IF Get(item, "quantity", 0) > 0
    THEN RatDiv(RatMul(TotalPaidEur(order), ValueProportion(item, order)),
                FromInt(Get(item, "quantity", 0)))
    ELSE Zero

CbmProportion(item, info) ==
    IF RatPos(TotalContainerCbm(info))
    THEN RatDiv(Get(item, "cbm", Zero), TotalContainerCbm(info))
    ELSE Zero

\* Mutant of ShippingCostPerUnit: the item's whole shipping cost, not divided
\* by its quantity.
ShippingCostNotPerUnit(item, info) ==
    RatMul(TotalFreightEur(info), CbmProportion(item, info))

ShippingCostPerUnit(item, info) ==
    IF Get(item, "quantity", 0) > 0
    THEN RatDiv(RatMul(TotalFreightEur(info), CbmProportion(item, info)),
                FromInt(Get(item, "quantity", 0)))
    ELSE Zero

\* the rate as it would be if the percent were not divided by 100
DutyRateAsPercent(item, duties) ==
    Get(Get(duties, Get(item, "category", "Other"), <<>>), "duty_rate", Zero)

\* duty_rate: import_duties.get(category, {}) is a dict here, so the rate is
\* duty_config.get('duty_rate', 0) / 100.
DutyRate(item, duties) ==
    RatDiv(Get(Get(duties, Get(item, "category", "Other"), <<>>), "duty_rate", Zero),
           FromInt(100))

ImportDutyPerUnit(item, order, duties) ==
    RatMul(ProductCostPerUnit(item, order), DutyRate(item, duties))

LandedCostPerUnit(item, order, info, duties) ==
    RatAdd(RatAdd(ProductCostPerUnit(item, order), ShippingCostPerUnit(item, info)),
           ImportDutyPerUnit(item, order, duties))

\* The dict appended to results for one line item.  src = <<order position,
\* item position>> is a history field telling which line item the row came from.
CostRow(o, i, orders, info, duties) ==
    LET order == orders[o]
        item == LineItemsOf(order)[i]
    IN  [EAN |-> Get(item, "ean", ""),
         Product |-> Get(item, "description", ""),
         Supplier |-> Get(order, "supplier_name", ""),
         Order |-> Get(order, "order_number", ""),
         Category |-> Get(item, "category", "Other"),
         Quantity |-> Get(item, "quantity", 0),
         CBM |-> Get(item, "cbm", Zero),
         UnitPriceUSD |-> Get(item, "unit_price_usd", Zero),
         ProductCostPerUnitEUR |-> Round(ProductCostPerUnit(item, order), 10000),
         ShippingCostPerUnitEUR |-> Round(ShippingCostPerUnit(item, info), 10000),
         DutyRatePct |-> Round(RatMul(DutyRate(item, duties), FromInt(100)), 100),
         ImportDutyPerUnitEUR |-> Round(ImportDutyPerUnit(item, order, duties), 10000),
         LandedCostPerUnitEUR |-> Round(LandedCostPerUnit(item, order, info, duties), 10000),
         TotalValueEUR |-> Round(RatMul(LandedCostPerUnit(item, order, info, duties),
                                        FromInt(Get(item, "quantity", 0))), 100),
         src |-> <<o, i>>]

\* The inner loop over one order's line items, from item i on.
RECURSIVE OrderRows(_, _, _, _, _)
OrderRows(o, i, orders, info, duties) ==
    IF i > Len(LineItemsOf(orders[o])) THEN <<>>
    ELSE IF Skipped(Get(LineItemsOf(orders[o])[i], "quantity", 0))
         THEN OrderRows(o, i + 1, orders, info, duties)
         ELSE <<CostRow(o, i, orders, info, duties)>> \o OrderRows(o, i + 1, orders, info, duties)

\* The outer loop over the orders, from order o on.
RECURSIVE LandedCosts(_, _, _, _)
LandedCosts(o, orders, info, duties) ==
    IF o > Len(orders) THEN <<>>
    ELSE OrderRows(o, 1, orders, info, duties) \o LandedCosts(o + 1, orders, info, duties)

calculate_landed_costs ==
    /\ ~calculated
    /\ results' = LandedCosts(1, supplier_orders, container_info, import_duties)
    /\ calculated' = TRUE
    /\ UNCHANGED <<supplier_orders, container_info, import_duties>>

(***************************************************************************)
(* Inputs of the allocator.                                                 *)
(***************************************************************************)
Quantities == {-10, 0, 50, 100}
Prices == {Rat(5, 1), Rat(10, 1)}

\* All sequences over S of length lo..hi.
SeqsOf(S, lo, hi) == UNION {[1..n -> S] : n \in lo..hi}

\* the rows of list at the positions K, in the list's order
RECURSIVE RowsAt(_, _)
RowsAt(list, K) ==
    IF K = {} THEN <<>>
    ELSE LET k == CHOOSE n \in K : \A m \in K : m <= n
         IN  Append(RowsAt(list, K \ {k}), list[k])

\* the lists of lo..hi rows of list, in the list's order
SubLists(list, lo, hi) ==
    {RowsAt(list, K) : K \in {J \in SUBSET DOMAIN list : Cardinality(J) \in lo..hi}}

\* The sequences of orders holding at most b line items in all, each order
\* with a payment pair of Pay and at least one line item of Items.
RECURSIVE OrderSeqs(_, _, _)
OrderSeqs(b, Pay, Items) ==
    IF b = 0 THEN {<<>>}
    ELSE {<<>>} \cup
         UNION {{<<[supplier_name |-> "Toporek", order_number |-> "PO-1",
                    payment_1 |-> p[1], payment_2 |-> p[2], line_items |-> li]>> \o rest :
                   p \in Pay, li \in SeqsOf(Items, k, k),
                   rest \in OrderSeqs(b - k, Pay, Items)} : k \in 1..b}

\* Orders as the order form builds them (app.py, "Add Supplier Order").
CostItems ==
    [product_code : {"TP-A"}, description : {"TP-A"}, quantity : Quantities,
     unit_price_usd : Prices, cbm : {Rat(2, 1)}, ean : {"8710000000001"},
     category : {"Laptop Stand"}]

CostPayments ==
    {<<[amount_usd |-> Rat(900, 1), fx_rate |-> Rat(1, 1)],
       [amount_usd |-> Rat(100, 1), fx_rate |-> Rat(92, 100)]>>}

ShipQuantities == {0, 3, 50}
Cbms == {Rat(2, 1), Rat(3, 1)}
ContainerCbms == {Zero, Rat(5, 1), Rat(10, 1)}

ShipItems ==
    [product_code : {"TP-A"}, description : {"TP-A"}, quantity : ShipQuantities,
     unit_price_usd : {Rat(5, 1)}, cbm : Cbms, ean : {"8710000000001"},
     category : {"Laptop Stand"}]


(***************************************************************************)
(* Inputs of the matcher: catalogs of rows, search texts, hints, batches.   *)
(***************************************************************************)
\* the power strip S8 as the catalog lists it
RowPowerS8 ==
    [EAN |-> <<"8", "7", "1", "1", "1", "1", "1", "1", "1", "1", "1", "1", "1">>, InternalCode |-> <<"V", "S", "0", "8", "1", "1">>, ExternalCode |-> <<"T", "P", "-", "0", "8">>,
     SimplifiedId |-> <<"S", "8">>, Title |-> <<"P", "o", "w", "e", "r", " ", "S", "8">>,
     Category |-> <<"S", "t", "e", "k", "k", "e", "r", "d", "o", "o", "s">>, Supplier |-> <<"T", "o", "p", "o", "r", "e", "k">>, CBM |-> Rat(1, 2), BoxAmount |-> FromInt(20)]

\* a second row for the same product: the same EAN and, once normalized, the same codes
RowPowerS8Again ==
    [EAN |-> <<"8", "7", "1", "1", "1", "1", "1", "1", "1", "1", "1", "1", "1">>, InternalCode |-> <<"v", "s", "-", "0", "8", "1", "1">>, ExternalCode |-> <<"t", "p", " ", "0", "8">>,
     SimplifiedId |-> <<"s", "-", "8">>, Title |-> <<"S", "t", "r", "i", "p", " ", "8">>,
     Category |-> <<"S", "t", "e", "k", "k", "e", "r", "d", "o", "o", "s">>, Supplier |-> <<"O", "u", "l", "i", " ", "T", "r", "a", "d", "i", "n", "g">>, CBM |-> Rat(1, 2), BoxAmount |-> FromInt(10)]

\* a row whose internal code is the other product's EAN and whose external code holds it
RowEanAsCode ==
    [EAN |-> <<"8", "7", "2", "2", "2", "2", "2", "2", "2", "2", "2", "2", "2">>, InternalCode |-> <<"8", "7", "1", "1", "1", "1", "1", "1", "1", "1", "1", "1", "1">>, ExternalCode |-> <<"X", "8", "7", "1", "1", "1", "1", "1", "1", "1", "1", "1", "1", "1">>,
     SimplifiedId |-> NaN, Title |-> <<"C", "u", "b", "e">>,
     Category |-> <<"S", "t", "e", "k", "k", "e", "r", "d", "o", "o", "s">>, Supplier |-> <<"O", "u", "l", "i">>, CBM |-> Rat(1, 4), BoxAmount |-> FromInt(40)]

\* a row without EAN whose internal code reads like an alias
RowAliasAsCode ==
    [EAN |-> NaN, InternalCode |-> <<"P", "O", "W", "E", "R", " ", "S", "8">>, ExternalCode |-> <<"T", "P", "-", "0", "8", "1", "1">>,
     SimplifiedId |-> <<"X", "S", "8">>, Title |-> <<"P", "o", "w", "e", "r", " ", "S", "8", " ", "w", "h", "i", "t", "e">>,
     Category |-> <<"S", "t", "e", "k", "k", "e", "r", "d", "o", "o", "s">>, Supplier |-> <<"T", "o", "p", "o", "r", "e", "k">>, CBM |-> Rat(1, 2), BoxAmount |-> FromInt(20)]

\* a row with empty cells: no category, supplier, CBM or box amount
RowEmptyCells ==
    [EAN |-> <<"8", "7", "3", "3", "3", "3", "3", "3", "3", "3", "3", "3", "3">>, InternalCode |-> <<"V", "S", "0", "9", "1", "1">>, ExternalCode |-> <<"T", "P", "-", "0", "9">>,
     SimplifiedId |-> <<"S", "9">>, Title |-> <<"P", "o", "w", "e", "r", " ", "S", "9">>,
     Category |-> NaN, Supplier |-> NaN, CBM |-> NaN, BoxAmount |-> NaN]

\* The catalog file the catalogs are cut from.
CatalogRows == <<RowPowerS8, RowPowerS8Again, RowEanAsCode, RowAliasAsCode, RowEmptyCells>>

\* The catalogs: up to MaxRows rows of the file, in the file's order.
Catalogs == SubLists(CatalogRows, 1, MaxRows)

\* The match calls made: <<search_text, supplier_hint>>, <<>> for no hint (None).
MatchCalls ==
    {<<<<"p", "o", "w", "e", "r", " ", "s", "8">>, <<>>>>,
     <<<<"8", "7", "1", "1", "1", "1", "1", "1", "1", "1", "1", "1", "1">>, <<>>>>,
     <<<<"v", "s", "0", "8", "1", "1">>, <<>>>>,
     <<<<"T", "P", "-", "0", "8">>, <<>>>>,
     <<<<"T", "P", "-", "0">>, <<>>>>,
     <<<<"T", "P", "-", "0">>, <<"t", "o", "p", "o", "r", "e", "k">>>>,
     <<<<"s", "8">>, <<>>>>,
     <<<<"x", "s", "8", "x">>, <<>>>>,
     <<<<"P", "o", "w", "e", "r", " ", "S", "9">>, <<>>>>,
     <<<<"P", "o", "w", "e", "r", " ", "S", "9">>, <<"t", "o", "p", "o", "r", "e", "k">>>>,
     <<<<>>, <<>>>>,
     <<<<"z", "z", "z">>, <<>>>>,
     <<<<"P", "o", "w", "e", "r", " ", "S">>, <<>>>>,
     <<<<"P", "o", "w", "e", "r", " ", "S">>, <<"t", "o", "p", "o", "r", "e", "k">>>>,
     <<<<"-", "-", "-">>, <<>>>>}

\* the items of a document: one no catalog has, first and last, one known by
\* its code and one known by its description only
BatchItems ==
    <<[product_code |-> <<"z", "z", "z">>],
      [product_code |-> <<"P", "o", "w", "e", "r", " ", "S", "9">>, description |-> <<"s", "t", "r", "i", "p">>],
      [product_code |-> <<>>, description |-> <<"p", "o", "w", "e", "r", " ", "s", "8">>],
      [product_code |-> <<"z", "z", "z">>]>>

\* The batches: up to MaxBatch items of the document, in the document's order.
Batches == SubLists(BatchItems, 0, MaxBatch)

MatcherIdle ==
    /\ motherbase = <<>>
    /\ ean_index = <<>>
    /\ external_code_index = <<>>
    /\ internal_code_index = <<>>
    /\ simplified_id_index = <<>>
    /\ call = NoCall
    /\ returned = None
    /\ previous = NoCall
    /\ summary = NoSummary
    /\ summarized = <<>>

MergeIdle ==
    /\ ci_items = <<>>
    /\ pl_items = <<>>
    /\ merged = <<>>
    /\ ci_before = <<>>

ParseIdle ==
    /\ document = <<>>
    /\ parser = "none"
    /\ parsed = [items |-> <<>>, header_row |-> -1]

AllocIdle ==
    /\ supplier_orders = <<>>
    /\ container_info = [container_id |-> ""]
    /\ import_duties = DEFAULT_CATEGORIES
    /\ results = <<>>
    /\ calculated = FALSE

\* ProductMatcher(motherbase): the indices are built once, at construction
InitMatch ==
    /\ motherbase \in Catalogs
    /\ ean_index = build_indices(motherbase)[1]
    /\ external_code_index = build_indices(motherbase)[2]
    /\ internal_code_index = build_indices(motherbase)[3]
    /\ simplified_id_index = build_indices(motherbase)[4]
    /\ call = NoCall
    /\ returned = None
    /\ previous = NoCall
    /\ summary = NoSummary
    /\ summarized = <<>>
    /\ AllocIdle
    /\ MergeIdle
    /\ ParseIdle

DoMatch ==
    /\ \E c \in MatchCalls : match(c[1], c[2])
    /\ summary' = NoSummary
    /\ summarized' = <<>>
    /\ UNCHANGED <<alloc_vars, merge_vars, parse_vars>>

DoMatchBatch ==
    /\ \E items \in Batches : match_batch(items, <<>>)
    /\ summary' = NoSummary
    /\ summarized' = <<>>
    /\ UNCHANGED <<alloc_vars, merge_vars, parse_vars>>

\* the summary of the batch results just returned
DoGetMatchSummary ==
    /\ call.op = "match_batch"
    /\ returned # Raised
    /\ get_match_summary(returned.results)
    /\ UNCHANGED <<alloc_vars, merge_vars, parse_vars>>

NextMatch == DoMatch \/ DoMatchBatch \/ DoGetMatchSummary

SpecMatch == InitMatch /\ [][NextMatch]_vars

(***************************************************************************)
(* The matcher asked for its aliases: catalogs of the products whose        *)
(* aliases begin alike, each search text a key of PRODUCT_NAME_MAPPINGS.    *)
(***************************************************************************)
InitAlias ==
    /\ motherbase \in SubLists(
           <<[RowPowerS8 EXCEPT !.EAN = NaN, !.InternalCode = <<"V", "S", "1", "2", "1", "1">>,
                  !.ExternalCode = <<"T", "P", "-", "1", "2">>, !.SimplifiedId = NaN, !.Title = <<"P", "o", "w", "e", "r", " ", "S", "1", "2">>],
             [RowPowerS8 EXCEPT !.EAN = NaN, !.InternalCode = <<"V", "S", "1", "2", "C">>,
                  !.ExternalCode = <<"T", "P", "-", "1", "2", "C">>, !.SimplifiedId = NaN, !.Title = <<"P", "o", "w", "e", "r", " ", "S", "1", "2", "C">>],
             [RowPowerS8 EXCEPT !.EAN = NaN, !.InternalCode = <<"V", "S", "0", "6", "1", "1">>,
                  !.ExternalCode = <<"T", "P", "-", "C", "6">>, !.SimplifiedId = NaN, !.Title = <<"C", "u", "b", "e", " ", "S", "6">>],
             [RowPowerS8 EXCEPT !.EAN = NaN, !.InternalCode = <<"V", "S", "0", "6", "2", "1">>,
                  !.ExternalCode = <<"T", "P", "-", "C", "6", "W">>, !.SimplifiedId = NaN, !.Title = <<"C", "u", "b", "e", " ", "S", "6", "-", "W">>]>>,
           1, MaxRows)
    /\ ean_index = build_indices(motherbase)[1]
    /\ external_code_index = build_indices(motherbase)[2]
    /\ internal_code_index = build_indices(motherbase)[3]
    /\ simplified_id_index = build_indices(motherbase)[4]
    /\ call = NoCall
    /\ returned = None
    /\ previous = NoCall
    /\ summary = NoSummary
    /\ summarized = <<>>
    /\ AllocIdle
    /\ MergeIdle
    /\ ParseIdle

NextAlias ==
    /\ \E k \in 1..Len(PRODUCT_NAME_MAPPINGS) : match(PRODUCT_NAME_MAPPINGS[k][1], <<>>)
    /\ UNCHANGED <<alloc_vars, merge_vars, parse_vars, summary_vars>>

SpecAlias == InitAlias /\ [][NextAlias]_vars

(***************************************************************************)
(* Inputs of merge_ci_pl and its specification.  The CI items are as the CI *)
(* parsers make them (cbm = 0); the PL items carry the volume.              *)
(***************************************************************************)
CiLine(code, qty, price) ==
    [product_code |-> code, description |-> "strip", quantity |-> qty,
     unit_price_usd |-> price, cbm |-> Zero, color |-> "", cartons |-> 0,
     gross_weight |-> Zero, net_weight |-> Zero]

PlLine(code, color, cartons, cbm) ==
    [product_code |-> code, description |-> "strip", quantity |-> cartons * 10,
     unit_price_usd |-> Zero, cbm |-> cbm, color |-> color, cartons |-> cartons,
     gross_weight |-> Zero, net_weight |-> Zero]

CiPool ==
    {CiLine(<<"T", "P", "-", "0", "1">>, 100, Rat(5, 1)),
     CiLine(<<"O", "L", "-", "2">>, 50, Rat(10, 1))}

\* A packing list: two rows of the first product, one per colour, between
\* them a product no invoice has, and a row of the second product.
PackingList ==
    <<PlLine(<<"t", "p", " ", "0", "1">>, "black", 5, Rat(2, 1)),
      PlLine(<<"Z", "Z", "-", "9">>, "", 2, Rat(4, 1)),
      PlLine(<<"T", "P", "-", "0", "1">>, "white", 5, Rat(3, 1)),
      PlLine(<<"o", "l", "2">>, "", 1, Rat(1, 1))>>

\* The PL sequences given to merge_ci_pl: any rows of the first MaxPl of the
\* packing list.
PlSeqs == {RowsAt(PackingList, K) : K \in SUBSET ((1..MaxPl) \cap DOMAIN PackingList)}

InitMerge ==
    /\ ci_items \in SeqsOf(CiPool, 0, MaxCi)
    /\ pl_items = <<>>
    /\ merged = <<>>
    /\ ci_before = <<>>
    /\ AllocIdle
    /\ MatcherIdle
    /\ ParseIdle

NextMerge ==
    /\ \E pl \in PlSeqs : merge_ci_pl(pl)
    /\ UNCHANGED <<alloc_vars, matcher_vars, summary_vars, parse_vars>>

SpecMerge == InitMerge /\ [][NextMerge]_vars

(***************************************************************************)
(* Inputs of the parsers and their specification: frames cut from one       *)
(* sheet of four columns.                                                   *)
(***************************************************************************)
SheetRows ==
    <<\* a data row above every header, naming the supplier
      <<Text(<<"A", "i", "n", "i", "s", "i", " ", "T", "P", "-", "0", "1", " ", "S", "t", "a", "n", "d", " ", "B", "l", "a", "c", "k">>),
        Num(Rat(120, 1)),
        Num(Rat(5, 2)),
        Num(Rat(3, 4))>>,
      \* the header of a Toporek invoice
      <<Text(<<"D", "e", "s", "c", "r", "i", "p", "t", "i", "o", "n">>),
        Text(<<"Q", "t", "y">>),
        Text(<<"U", "n", "i", "t", " ", "P", "r", "i", "c", "e">>),
        Text(<<"A", "m", "o", "u", "n", "t">>)>>,
      \* a row naming two codes, its quantity written with a comma
      <<Text(<<"O", "L", "-", "2", "2", " ", "T", "P", "-", "0", "1", " ", "W", "h", "i", "t", "e">>),
        Text(<<"1", ",", "2", "0", "0">>),
        Num(Rat(24, 1)),
        Num(Rat(3, 2))>>,
      \* a header both suppliers' parsers take
      <<Text(<<"I", "t", "e", "m", " ", "D", "e", "s", "c", "r", "i", "p", "t", "i", "o", "n">>),
        Text(<<"Q", "t", "y", " ", "/", " ", "Q", "u", "a", "n", "t", "i", "t", "y">>),
        Text(<<"C", "a", "r", "t", "o", "n", "s">>),
        Text(<<"C", "B", "M">>)>>,
      \* a row with an internal code and a number above every band
      <<Text(<<"V", "X", "0", "9", "1", "1", " ", "O", "u", "l", "i", "y", "o">>),
        Num(Rat(60000, 1)),
        Num(Rat(35, 1)),
        Num(Rat(1, 2))>>,
      \* a row of the Ouli packing list: cartons, quantity, volume
      <<Text(<<"Y", "4", "5", "6", "/", "O", "L", "-", "8", " ", "G", "r", "e", "y">>),
        Num(Rat(48, 1)),
        Num(Rat(480, 1)),
        Num(Rat(5, 4))>>,
      \* a total row that reads like a header of the Ouli parsers
      <<Text(<<"T", "o", "t", "a", "l", " ", "T", "P", "-", "0", "9", " ", "i", "t", "e", "m", "s", " ", "q", "t", "y">>),
        Num(Rat(1555, 1)),
        Blank,
        Num(Rat(5, 2))>>,
      \* a row whose only code is of the last pattern
      <<Text(<<"Y", "o", "u", "j", "i", " ", "A", "B", "C", "D", "E", "-", "1", "2", "3", "4">>),
        Num(Rat(300, 1)),
        Blank,
        Num(Rat(1, 2))>>,
      \* a row with a code and no whole number under the ceiling
      <<Text(<<"Y", "1", "2", "3", "/", "O", "L", "-", "7">>),
        Num(Rat(60000, 1)),
        Num(Rat(5, 2)),
        Blank>>,
      \* a row without code, its first number a fraction under 1
      <<Text(<<"s", "p", "a", "r", "e", " ", "p", "a", "r", "t", "s">>),
        Num(Rat(1, 2)),
        Num(Rat(300, 1)),
        Blank>>>>

\* The documents: up to MaxFrameRows rows of the sheet, in the sheet's order.
InitParse ==
    /\ document \in SubLists(SheetRows, 0, MaxFrameRows)
    /\ parser = "none"
    /\ parsed = [items |-> <<>>, header_row |-> -1]
    /\ AllocIdle
    /\ MatcherIdle
    /\ MergeIdle

NextParse ==
    /\ \/ \E doc_type \in {"ci", "pl"} : parse_document(doc_type)
       \/ ToporekParser_parse_ci
       \/ ToporekParser_parse_pl
       \/ OuliParser_parse_ci
       \/ OuliParser_parse_pl
       \/ GenericParser_parse
    /\ UNCHANGED <<alloc_vars, matcher_vars, merge_vars, summary_vars>>

SpecParse == InitParse /\ [][NextParse]_vars

(***************************************************************************)
(* The allocator's specifications.                                          *)
(***************************************************************************)
InitCost ==
    /\ supplier_orders \in OrderSeqs(MaxLineItems, CostPayments, CostItems) \ {<<>>}
    /\ container_info = [container_id |-> "C1", total_freight_eur |-> Rat(1000, 1),
                         total_cbm |-> Rat(10, 1)]
    /\ import_duties = DEFAULT_CATEGORIES
    /\ results = <<>>
    /\ calculated = FALSE
    /\ MatcherIdle
    /\ MergeIdle
    /\ ParseIdle

InitShip ==
    /\ supplier_orders \in OrderSeqs(MaxLineItems, CostPayments, ShipItems) \ {<<>>}
    /\ container_info \in [container_id : {"C1"}, total_freight_eur : {Rat(1000, 1)},
                            total_cbm : ContainerCbms]
    /\ import_duties = DEFAULT_CATEGORIES
    /\ results = <<>>
    /\ calculated = FALSE
    /\ MatcherIdle
    /\ MergeIdle
    /\ ParseIdle

NextAlloc ==
    calculate_landed_costs /\ UNCHANGED <<matcher_vars, merge_vars, summary_vars, parse_vars>>

SpecCost == InitCost /\ [][NextAlloc]_vars

SpecShip == InitShip /\ [][NextAlloc]_vars

(***************************************************************************)
(* The allocator on one order of mixed line items: matched ones (with ean   *)
(* and category, as the matching tab writes them), unmatched ones (as the   *)
(* order form leaves them), a category the duty settings do not list, a     *)
(* zero quantity, a zero price; payments present, absent, or given in EUR;  *)
(* a container with and without volume and freight; edited duty settings.   *)
(***************************************************************************)
DutyItems ==
    {[product_code |-> "TP-A", description |-> "TP-A", quantity |-> 100,
      unit_price_usd |-> Rat(5, 1), cbm |-> Rat(2, 1), ean |-> "8710000000001",
      category |-> "Laptop Stand"],
     [product_code |-> "TP-B", description |-> "TP-B", quantity |-> 50,
      unit_price_usd |-> Rat(10, 1), cbm |-> Rat(3, 1)],
     [product_code |-> "TP-C", description |-> "TP-C", quantity |-> 50,
      unit_price_usd |-> Rat(5, 1), cbm |-> Rat(3, 1), ean |-> "8710000000003",
      category |-> "Gadget"],
     [product_code |-> "TP-D", description |-> "TP-D", quantity |-> 0,
      unit_price_usd |-> Rat(5, 1), cbm |-> Rat(2, 1), ean |-> "8710000000004",
      category |-> "Stekkerdoos"],
     [product_code |-> "TP-E", description |-> "TP-E", quantity |-> 100,
      unit_price_usd |-> Zero, cbm |-> Rat(2, 1), ean |-> "8710000000005",
      category |-> "Stekkerdoos"]}

DutyPayments ==
    {<<[amount_usd |-> Rat(1000, 1), fx_rate |-> Rat(1, 1), date |-> "2024-01-15"], None>>,
     <<[amount_usd |-> Rat(900, 1), fx_rate |-> Rat(1, 1), date |-> "2024-01-15"],
       [amount_usd |-> Rat(100, 1), fx_rate |-> Rat(92, 100), date |-> "2024-02-15"]>>,
     <<None, None>>,
     <<[amount_eur |-> Rat(500, 1), date |-> "2024-01-15"], None>>}

DutyOrders ==
    {<<[supplier_name |-> "Toporek", order_number |-> "PO-1",
        payment_1 |-> p[1], payment_2 |-> p[2], line_items |-> li]>> :
       p \in DutyPayments, li \in SeqsOf(DutyItems, 1, MaxLineItems)}

DutyContainers ==
    {[container_id |-> "C1", total_freight_eur |-> Rat(1000, 1), total_cbm |-> Rat(10, 1)],
     [container_id |-> "C1", total_freight_eur |-> Rat(1000, 1)],
     [container_id |-> "C1", total_freight_eur |-> Zero, total_cbm |-> Zero]}

\* the duty settings as shipped and as edited in the settings tab
DutySettings ==
    {DEFAULT_CATEGORIES,
     [DEFAULT_CATEGORIES EXCEPT !["Stekkerdoos"].duty_rate = Rat(45, 10)]}

InitDuty ==
    /\ supplier_orders \in DutyOrders
    /\ container_info \in DutyContainers
    /\ import_duties \in DutySettings
    /\ results = <<>>
    /\ calculated = FALSE
    /\ MatcherIdle
    /\ MergeIdle
    /\ ParseIdle

SpecDuty == InitDuty /\ [][NextAlloc]_vars

(***************************************************************************)
(* Claims about the allocator.  Money read from the rows is in units of     *)
(* 10^-4 EUR, so a sum of per-unit figures times quantities is off by at    *)
(* most half a unit per piece: that is the rounding tolerance.              *)
(***************************************************************************)
AllItems == {oi \in (1..Len(supplier_orders)) \X (1..MaxLineItems + 1) :
               oi[2] <= Len(LineItemsOf(supplier_orders[oi[1]]))}
ItemAt(oi) == LineItemsOf(supplier_orders[oi[1]])[oi[2]]
RowIdx == 1..Len(results)
RowsOfOrder(o) == {k \in RowIdx : results[k].src[1] = o}

RECURSIVE SumOver(_, _)
SumOver(S, f) ==
    IF S = {} THEN 0 ELSE LET x == CHOOSE y \in S : TRUE IN f[x] + SumOver(S \ {x}, f)

ProductCostSum(K) == SumOver(K, [k \in K |-> results[k].ProductCostPerUnitEUR * results[k].Quantity])
ShippingCostSum(K) == SumOver(K, [k \in K |-> results[k].ShippingCostPerUnitEUR * results[k].Quantity])
QuantitySum(K) == SumOver(K, [k \in K |-> results[k].Quantity])

\* |units / 10^4 - amount| <= pieces * 0.00005
WithinRounding(units, amount, pieces) ==
    Abs(2 * units * amount[2] - 20000 * amount[1]) <= pieces * amount[2]

RECURSIVE SumCbm(_)
SumCbm(S) ==
    IF S = {} THEN Zero
    ELSE LET x == CHOOSE y \in S : TRUE IN RatAdd(Get(ItemAt(x), "cbm", Zero), SumCbm(S \ {x}))

\* C1: allocation conservation.  For every order whose total USD value is > 0,
\* the rows of the order add up (product cost per unit times quantity) to what
\* was paid for the order in EUR, up to rounding, whatever the quantities and
\* prices of its line items.
C1_AllocationConservation ==
    calculated =>
        \A o \in 1..Len(supplier_orders) :
            RatPos(TotalOrderUsd(supplier_orders[o])) =>
                WithinRounding(ProductCostSum(RowsOfOrder(o)), TotalPaidEur(supplier_orders[o]),
                               QuantitySum(RowsOfOrder(o)))

\* C2 as stated: shipping conservation.  Whenever the CBM of all line items of
\* all orders add up to the container's total CBM, the rows add up (shipping
\* cost per unit times quantity) to the total freight, up to rounding.
C2_ShippingConservation ==
    (calculated /\ SumCbm(AllItems) = Get(container_info, "total_cbm", Zero)) =>
        WithinRounding(ShippingCostSum(RowIdx), TotalFreightEur(container_info),
                       QuantitySum(RowIdx))

\* C2 as amended: whenever the CBM of the line items with quantity > 0 add up
\* to the container's total CBM and that total is > 0, the rows add up
\* (shipping cost per unit times quantity) to the total freight, up to rounding.
C2_ShippingConservationOfCountedItems ==
    (/\ calculated
     /\ RatPos(Get(container_info, "total_cbm", Zero))
     /\ SumCbm({oi \in AllItems : Get(ItemAt(oi), "quantity", 0) > 0})
          = Get(container_info, "total_cbm", Zero)) =>
        WithinRounding(ShippingCostSum(RowIdx), TotalFreightEur(container_info),
                       QuantitySum(RowIdx))

\* Witness of C2: a calculated container whose counted items fill the container's
\* CBM exactly, spread over two rows of unequal shipping cost, next to a skipped
\* line item that has a volume of its own.
C2_Witness ==
    /\ calculated
    /\ RatPos(Get(container_info, "total_cbm", Zero))
    /\ SumCbm({oi \in AllItems : Get(ItemAt(oi), "quantity", 0) > 0})
         = Get(container_info, "total_cbm", Zero)
    /\ Len(results) = 2
    /\ results[1].ShippingCostPerUnitEUR # results[2].ShippingCostPerUnitEUR
    /\ \E oi \in AllItems : Get(ItemAt(oi), "quantity", 0) <= 0

\* C3: zero-quantity exclusion.  No row comes from a line item with quantity
\* <= 0, every line item with quantity > 0 has exactly one row, carrying its
\* quantity, and the rows follow the order of the line items.
C3_ZeroQuantityExclusion ==
    calculated =>
        /\ \A k \in RowIdx :
              /\ results[k].src \in AllItems
              /\ results[k].Quantity = Get(ItemAt(results[k].src), "quantity", 0)
              /\ results[k].Quantity > 0
        /\ \A oi \in AllItems :
              Get(ItemAt(oi), "quantity", 0) > 0 =>
                  Cardinality({k \in RowIdx : results[k].src = oi}) = 1
        /\ \A k, l \in RowIdx :
              k < l => \/ results[k].src[1] < results[l].src[1]
                       \/ /\ results[k].src[1] = results[l].src[1]
                          /\ results[k].src[2] < results[l].src[2]

\* Witness of C3: a calculation over line items of which one has quantity 0, one
\* a negative quantity and one a positive quantity, which alone has a row.
C3_Witness ==
    /\ calculated
    /\ \E oi \in AllItems : Get(ItemAt(oi), "quantity", 0) = 0
    /\ \E oi \in AllItems : Get(ItemAt(oi), "quantity", 0) < 0
    /\ Len(results) = 1

(***************************************************************************)
(* Claims about the matcher.  They are read off the last call and what it   *)
(* returned.                                                                *)
(***************************************************************************)
SearchText == strip(str(call.search_text))
SearchNormalized == normalize(SearchText)
IsEanText == isdigit(SearchText) /\ Len(SearchText) = 13
Least(S) == CHOOSE n \in S : \A m \in S : n <= m
RowIds == 1..Len(motherbase)

\* C4: a 13-digit search text that is in the EAN index and is part of (or
\* holds) an indexed external code is answered with the row of that EAN, with
\* confidence 1.0 and method exact_ean.
C4_ExactEanPrecedence ==
    (/\ call.op = "match"
     /\ IsEanText
     /\ DictHas(ean_index, SearchText)
     /\ \E n \in 1..Len(external_code_index) :
            \/ Contains(SearchNormalized, external_code_index[n][1])
            \/ Contains(external_code_index[n][1], SearchNormalized))
    => /\ Found(returned)
       /\ returned.idx = DictGet(ean_index, SearchText)
       /\ returned.confidence = FromInt(1)
       /\ returned.match_method = "exact_ean"

\* C5: when VS0811 is an indexed internal code, match("power s8") returns the
\* row of VS0811 with confidence 0.9 and method mapped_internal_code.
C5_MappedAliasFirst ==
    (/\ call.op = "match"
     /\ call.search_text = <<"p", "o", "w", "e", "r", " ", "s", "8">>
     /\ DictHas(internal_code_index, <<"V", "S", "0", "8", "1", "1">>))
    => /\ Found(returned)
       /\ returned.idx = DictGet(internal_code_index, <<"V", "S", "0", "8", "1", "1">>)
       /\ returned.confidence = Rat(9, 10)
       /\ returned.match_method = "mapped_internal_code"

\* C6: a search text that holds no alias, is not an indexed EAN and not an
\* indexed external code, and whose normalized form is an indexed internal
\* code, is answered with that row, confidence 0.95 and method
\* exact_internal_code.
C6_ExactInternalCodeConfidence ==
    (/\ call.op = "match"
     /\ call.search_text # <<>>
     /\ MappedCodes(strip(lower(SearchText)), 1) = <<>>
     /\ ~(IsEanText /\ DictHas(ean_index, SearchText))
     /\ ~DictHas(external_code_index, SearchNormalized)
     /\ DictHas(internal_code_index, SearchNormalized))
    => /\ Found(returned)
       /\ returned.idx = DictGet(internal_code_index, SearchNormalized)
       /\ returned.confidence = Rat(95, 100)
       /\ returned.match_method = "exact_internal_code"

QualifyingRows(method) ==
    CASE method = "exact_ean" ->
           {i \in RowIds : IsEanText /\ strip(str(motherbase[i].EAN)) = SearchText}
      [] method = "exact_external_code" ->
           {i \in RowIds : normalize(motherbase[i].ExternalCode) = SearchNormalized}
      [] method = "exact_internal_code" ->
           {i \in RowIds : normalize(motherbase[i].InternalCode) = SearchNormalized}
      [] method = "partial_external_code" ->
           {i \in RowIds :
               /\ normalize(motherbase[i].ExternalCode) # <<>>
               /\ PartialExternal(motherbase, <<normalize(motherbase[i].ExternalCode), i>>,
                                  SearchNormalized, call.supplier_hint)}
      [] method \in {"simplified_id", "partial_simplified_id"} ->
           {i \in RowIds :
               /\ normalize(motherbase[i].SimplifiedId) # <<>>
               /\ \/ SimplifiedSimilar(<<normalize(motherbase[i].SimplifiedId), i>>,
                                       SearchNormalized)
                  \/ SimplifiedContained(<<normalize(motherbase[i].SimplifiedId), i>>,
                                         SearchNormalized)}
      [] OTHER -> {}

\* C8: a result of one of the strategies 1 to 5 is made from the first row of
\* the catalog that qualifies at that strategy's level.
C8_FirstQualifyingRowWins ==
    (/\ call.op = "match"
     /\ Found(returned)
     /\ returned.match_method \notin {"mapped_internal_code", "title_similarity"})
    => returned.idx = Least(QualifyingRows(returned.match_method))

(***************************************************************************)
(* Claims about merge_ci_pl, read off the last call: ci_before and pl_items *)
(* went in, merged came out.                                                *)
(***************************************************************************)
\* the positions of the PL items whose normalized code is that of the CI item
SameCode(ci_item) ==
    {k \in 1..Len(pl_items) :
        clean_code(pl_items[k].product_code) = clean_code(ci_item.product_code)}

RECURSIVE PlCbmSum(_)
PlCbmSum(K) ==
    IF K = {} THEN Zero
    ELSE LET k == CHOOSE n \in K : TRUE
         IN  RatAdd(pl_items[k].cbm, PlCbmSum(K \ {k}))

\* C9 as stated: the output is the CI items in their order, each with its CBM
\* set to the sum of the CBM of the PL items of its normalized code (0 when
\* there is none), nothing else changed and nothing added.
C9_MergeSetsSum ==
    /\ Len(merged) = Len(ci_before)
    /\ \A i \in 1..Len(merged) :
           merged[i] = [ci_before[i] EXCEPT !.cbm = PlCbmSum(SameCode(ci_before[i]))]

\* C9 as amended: the CBM is set to that sum when at least one PL item has the
\* CI item's normalized code, and the CI item is returned as it was otherwise.
C9_MergeSetsSumWhenMatched ==
    /\ Len(merged) = Len(ci_before)
    /\ \A i \in 1..Len(merged) :
           merged[i] = IF SameCode(ci_before[i]) # {}
                       THEN [ci_before[i] EXCEPT !.cbm = PlCbmSum(SameCode(ci_before[i]))]
                       ELSE ci_before[i]

\* two PL rows written differently sum into one CI row, beside a PL-only row
C9_Witness ==
    \E i \in 1..Len(merged) :
        /\ \E k, l \in SameCode(ci_before[i]) :
               k # l /\ pl_items[k].product_code # pl_items[l].product_code
        /\ \E k \in 1..Len(pl_items) : k \notin SameCode(ci_before[i])
        /\ merged[i].cbm = Rat(5, 1)
        /\ ci_before[i].cbm # merged[i].cbm

\* C10 as stated: a CI item merged against no PL item of its normalized code
\* comes out with CBM = 0.
C10_NoMatchYieldsZero ==
    \A i \in 1..Len(merged) :
        SameCode(ci_before[i]) = {} => merged[i].cbm = Zero

\* C10 as amended: a CI item merged against no PL item of its normalized code
\* comes out with the CBM it went in with (0 for an item a CI parser made).
C10_NoMatchKeepsCbm ==
    \A i \in 1..Len(merged) :
        SameCode(ci_before[i]) = {} => merged[i].cbm = ci_before[i].cbm

\* an item that an earlier merge gave a volume is merged again, against PL
\* rows of another product only
C10_Witness ==
    \E i \in 1..Len(merged) :
        /\ pl_items # <<>>
        /\ SameCode(ci_before[i]) = {}
        /\ RatPos(ci_before[i].cbm)
        /\ merged[i].cbm = ci_before[i].cbm

(***************************************************************************)
(* Further claims about the allocator, row by row.                          *)
(***************************************************************************)
RowItem(k) == ItemAt(results[k].src)
RowOrder(k) == supplier_orders[results[k].src[1]]
ItemValueUsd(item) ==
    RatMul(FromInt(Get(item, "quantity", 0)), Get(item, "unit_price_usd", Zero))

\* quantity x unit price summed over the line items with quantity > 0
CountedOrderUsd(order) ==
    SumSeq([i \in 1..Len(LineItemsOf(order)) |->
              IF Get(LineItemsOf(order)[i], "quantity", 0) > 0
              THEN ItemValueUsd(LineItemsOf(order)[i]) ELSE Zero])

\* the product cost per unit of an item that gets the share value / total of paid
ShareOfPaid(item, total, paid) ==
    RatDiv(RatMul(paid, IF RatPos(total) THEN RatDiv(ItemValueUsd(item), total) ELSE Zero),
           FromInt(Get(item, "quantity", 0)))

\* C11: the denominator of the value proportion is the USD total of the line
\* items with quantity > 0 only: every row's product cost per unit is the share
\* (item value / that total) of what was paid, per piece.
C11_DenominatorOfCountedItems ==
    calculated =>
        \A k \in RowIdx :
            results[k].ProductCostPerUnitEUR =
                Round(ShareOfPaid(RowItem(k), CountedOrderUsd(RowOrder(k)),
                                  TotalPaidEur(RowOrder(k))), 10000)

\* a payment in EUR as the claim converts it
PaymentInEur(order, slot) ==
    IF Get(order, slot, None) = None THEN Zero
    ELSE IF "amount_eur" \in DOMAIN order[slot] THEN order[slot].amount_eur
    ELSE RatMul(Get(order[slot], "amount_usd", Zero), Get(order[slot], "fx_rate", FromInt(1)))

\* C12: what is allocated over an order's rows is the sum of its two payments
\* in EUR, a payment given in EUR at its EUR amount, a payment given in USD at
\* amount x fx rate, an absent payment at 0.
C12_PaidIsPaymentsInEur ==
    calculated =>
        \A k \in RowIdx :
            results[k].ProductCostPerUnitEUR =
                Round(ShareOfPaid(RowItem(k), TotalOrderUsd(RowOrder(k)),
                                  RatAdd(PaymentInEur(RowOrder(k), "payment_1"),
                                         PaymentInEur(RowOrder(k), "payment_2"))), 10000)

\* C13: the calculation ends with whole figures in every row whatever is zero
\* or missing: an order whose USD total is not > 0 gets product cost and duty
\* 0, and a container whose total CBM is zero or missing is taken to hold 1.
C13_DivisionGuards ==
    calculated =>
        \A k \in RowIdx :
            /\ {results[k].ProductCostPerUnitEUR, results[k].ShippingCostPerUnitEUR,
                results[k].ImportDutyPerUnitEUR, results[k].LandedCostPerUnitEUR,
                results[k].TotalValueEUR, results[k].DutyRatePct} \subseteq Int
            /\ ~RatPos(TotalOrderUsd(RowOrder(k))) =>
                   /\ results[k].ProductCostPerUnitEUR = 0
                   /\ results[k].ImportDutyPerUnitEUR = 0
            /\ RatIsZero(Get(container_info, "total_cbm", Zero)) =>
                   results[k].ShippingCostPerUnitEUR =
                       Round(RatDiv(RatMul(TotalFreightEur(container_info),
                                           Get(RowItem(k), "cbm", Zero)),
                                    FromInt(results[k].Quantity)), 10000)

\* an order worth 0 USD with no payment, in a container without total CBM but
\* with freight, has a row that costs shipping only
C13_Witness ==
    /\ calculated
    /\ "total_cbm" \notin DOMAIN container_info
    /\ \E k \in RowIdx :
           /\ ~RatPos(TotalOrderUsd(RowOrder(k)))
           /\ RowOrder(k).payment_1 = None /\ RowOrder(k).payment_2 = None
           /\ results[k].ShippingCostPerUnitEUR > 0
           /\ results[k].LandedCostPerUnitEUR = results[k].ShippingCostPerUnitEUR

\* the duty rate in percent the settings give the item's category
RatePercent(item) ==
    LET category == IF "category" \in DOMAIN item THEN item.category ELSE "Other"
    IN  IF category \in DOMAIN import_duties THEN import_duties[category].duty_rate ELSE Zero

\* C14: every row's import duty per unit is its product cost per unit times
\* the rate (percent / 100) of its category, 0 for a category not in the
\* settings and the rate of 'Other' for an item without category; the landed
\* cost per unit is product cost + shipping cost + import duty per unit.
C14_DutyAndLandedCost ==
    calculated =>
        \A k \in RowIdx :
            LET product == ProductCostPerUnit(RowItem(k), RowOrder(k))
                duty == RatMul(product, RatDiv(RatePercent(RowItem(k)), FromInt(100)))
            IN  /\ results[k].Category =
                       (IF "category" \in DOMAIN RowItem(k) THEN RowItem(k).category ELSE "Other")
                /\ results[k].ImportDutyPerUnitEUR = Round(duty, 10000)
                /\ results[k].LandedCostPerUnitEUR =
                       Round(RatAdd(RatAdd(product,
                                           ShippingCostPerUnit(RowItem(k), container_info)),
                                    duty), 10000)
                /\ Abs(results[k].LandedCostPerUnitEUR
                         - (results[k].ProductCostPerUnitEUR
                            + results[k].ShippingCostPerUnitEUR
                            + results[k].ImportDutyPerUnitEUR)) <= 2

\* a Laptop Stand pays 6 percent of its product cost as duty, beside a row of
\* a category the settings do not list and a row without category
C14_Witness ==
    /\ calculated
    /\ \E k \in RowIdx :
           /\ results[k].Category = "Laptop Stand"
           /\ results[k].ProductCostPerUnitEUR > 0
           /\ results[k].ImportDutyPerUnitEUR * 100 = results[k].ProductCostPerUnitEUR * 6
    /\ \E k \in RowIdx :
           /\ results[k].Category = "Gadget"
           /\ results[k].ProductCostPerUnitEUR > 0
           /\ results[k].ImportDutyPerUnitEUR = 0
    /\ \E k \in RowIdx : "category" \notin DOMAIN RowItem(k) /\ results[k].Category = "Other"

\* a line item that carries an EAN
Matched(item) == Get(item, "ean", "") # ""

\* C15: the rows are those of the line items that are matched and have
\* quantity > 0, one row each; an unmatched line item has no row.
C15_RowsOfMatchedItemsOnly ==
    calculated =>
        /\ \A k \in RowIdx : Matched(RowItem(k)) /\ results[k].Quantity > 0
        /\ \A oi \in AllItems :
               (Matched(ItemAt(oi)) /\ Get(ItemAt(oi), "quantity", 0) > 0) =>
                   Cardinality({k \in RowIdx : results[k].src = oi}) = 1

(***************************************************************************)
(* Further claims about the matcher.                                        *)
(***************************************************************************)
\* a text cell as the claim reads it: the empty string when it is missing
TextOrEmpty(cell) == IF isna(cell) THEN <<>> ELSE str(cell)

\* C16: match never raises on a row with missing cells: it returns a result
\* whose text fields are the row's, the empty string for a missing one, whose
\* CBM is 0 for a missing CBM and whose box amount is 0 for a missing one.
C16_DirtyRowsNeverRaise ==
    call.op = "match" =>
        /\ returned # Raised
        /\ Found(returned) =>
               LET row == motherbase[returned.idx]
               IN  /\ returned.title = TextOrEmpty(row.Title)
                   /\ returned.category = TextOrEmpty(row.Category)
                   /\ returned.supplier = TextOrEmpty(row.Supplier)
                   /\ returned.cbm = (IF isna(row.CBM) THEN Zero ELSE row.CBM)
                   /\ returned.box_amount =
                          (IF isna(row.BoxAmount) THEN 0 ELSE Trunc(row.BoxAmount))

(***************************************************************************)
(* Claims about the parsers.                                                *)
(***************************************************************************)
HeaderParsers ==
    {"ToporekParser.parse_ci", "ToporekParser.parse_pl",
     "OuliParser.parse_ci", "OuliParser.parse_pl"}

\* whether the text of row n of the document holds the word
Holds(n, word) == Contains(word, lower(RowText(document[n])))

\* the rows of the document that hold the header tokens of the parser called
HeaderRows ==
    {n \in 1..Len(document) :
        CASE parser = "ToporekParser.parse_ci" -> Holds(n, <<"d", "e", "s", "c", "r", "i", "p", "t", "i", "o", "n">>) /\ Holds(n, <<"q", "t", "y">>)
          [] parser = "ToporekParser.parse_pl" -> Holds(n, <<"d", "e", "s", "c", "r", "i", "p", "t", "i", "o", "n">>) \/ Holds(n, <<"c", "a", "r", "t", "o", "n">>)
          [] parser = "OuliParser.parse_ci" ->
                 Holds(n, <<"i", "t", "e", "m">>) /\ (Holds(n, <<"q", "t", "y">>) \/ Holds(n, <<"q", "u", "a", "n", "t", "i", "t", "y">>))
          [] parser = "OuliParser.parse_pl" -> Holds(n, <<"i", "t", "e", "m">>) \/ Holds(n, <<"m", "o", "d", "e", "l">>)
          [] OTHER -> FALSE}

\* C17: a header-based parser takes the first row that holds its header tokens
\* as the header and makes items only from rows strictly after it; when no row
\* holds the tokens it returns an empty sequence and does not raise.
C17_HeaderSearch ==
    parser \in HeaderParsers =>
        /\ HeaderRows = {} =>
               /\ parsed # Raised
               /\ parsed.header_row = 0
               /\ parsed.items = <<>>
        /\ HeaderRows # {} =>
               /\ parsed # Raised
               /\ parsed.header_row = Least(HeaderRows)
               /\ \A k \in 1..Len(parsed.items) : parsed.items[k].row > Least(HeaderRows)

\* a document with a data row above its first header row and a second header
\* row below, parsed into items
C17_Witness ==
    /\ parser \in HeaderParsers
    /\ Cardinality(HeaderRows) >= 2
    /\ Least(HeaderRows) > 1
    /\ parsed # Raised
    /\ parsed.items # <<>>

\* the patterns of the generic parser that match the text of the row
MatchingPatterns(row) ==
    {p \in 1..Len(product_patterns) : re_search(<<product_patterns[p]>>, RowText(row)) # None}

\* the whole numbers of the row under the ceiling
UsableQuantities(row) ==
    {Trunc(numbers(row)[n]) : n \in {m \in 1..Len(numbers(row)) :
        IsWhole(numbers(row)[m]) /\ RatLess(numbers(row)[m], FromInt(50000))}}

\* C18: GenericParser.parse never raises; every item is made from a row that
\* has a code and a usable quantity (a positive whole number under 50000), its
\* code being the match of the first pattern, in the list's order, that
\* matches the row, and its quantity the largest usable quantity of the row.
C18_GenericSilentSkipping ==
    parser = "GenericParser.parse" =>
        /\ parsed # Raised
        /\ \A k \in 1..Len(parsed.items) :
               LET row == document[parsed.items[k].row]
               IN  /\ MatchingPatterns(row) # {}
                   /\ UsableQuantities(row) # {}
                   /\ parsed.items[k].product_code =
                          re_search(<<product_patterns[Least(MatchingPatterns(row))]>>,
                                    RowText(row)).group
                   /\ parsed.items[k].quantity \in UsableQuantities(row)
                   /\ \A n \in UsableQuantities(row) : n <= parsed.items[k].quantity

\* C19: match_batch returns one (item, result) pair per item, in the items'
\* order, the result being what match returns for the item's product code, or
\* for its description when it has no product code, with the batch's hint; an
\* item without match is paired with None and the batch goes on.
C19_BatchIsMatchPerItem ==
    call.op = "match_batch" =>
        /\ returned # Raised
        /\ Len(returned.results) = Len(call.items)
        /\ \A n \in 1..Len(call.items) :
               /\ returned.results[n][1] = call.items[n]
               /\ returned.results[n][2] =
                      Match(motherbase, indices,
                            IF Get(call.items[n], "product_code", <<>>) # <<>>
                            THEN call.items[n].product_code
                            ELSE Get(call.items[n], "description", <<>>),
                            call.supplier_hint)

\* the sum of the counts of a by_method histogram
RECURSIVE HistogramSum(_)
HistogramSum(d) == IF d = <<>> THEN 0 ELSE Head(d)[2] + HistogramSum(Tail(d))

\* the results of summarized that are matches of confidence >= 0.8
HighConfidence ==
    {n \in 1..Len(summarized) :
        summarized[n][2] # None /\ ~RatLess(summarized[n][2].confidence, Rat(8, 10))}

\* C20: in a summary total = matched + unmatched, matched counts the results
\* that are not None, the histogram's counts add up to matched, the high
\* confidence results are at most matched, the two rates are matched / total
\* and high / total, both 0 for no results; the results summarized are still
\* what the batch returned and the indices what the constructor built.
C20_SummaryCounts ==
    summary # NoSummary =>
        /\ summary.total = Len(summarized)
        /\ summary.total = summary.matched + summary.unmatched
        /\ summary.matched = Cardinality({n \in 1..Len(summarized) : summarized[n][2] # None})
        /\ HistogramSum(summary.by_method) = summary.matched
        /\ \A m \in 1..Len(summary.by_method) :
               summary.by_method[m][2] =
                   Cardinality({n \in 1..Len(summarized) :
                                   /\ summarized[n][2] # None
                                   /\ summarized[n][2].match_method = summary.by_method[m][1]})
        /\ Cardinality(HighConfidence) <= summary.matched
        /\ summary.match_rate =
               (IF summary.total = 0 THEN Zero ELSE Rat(summary.matched, summary.total))
        /\ summary.high_confidence_rate =
               (IF summary.total = 0 THEN Zero
                ELSE Rat(Cardinality(HighConfidence), summary.total))
        /\ call.op = "match_batch" /\ returned = [results |-> summarized]
        /\ indices = build_indices(motherbase)

\* a summary of three results: one without match, one of high confidence and
\* one of low confidence, found in two ways
C20_Witness ==
    /\ summary # NoSummary
    /\ summary.total = 3
    /\ summary.unmatched = 1
    /\ Len(summary.by_method) = 2
    /\ Cardinality(HighConfidence) = 1

(***************************************************************************)
(* Claims about the strategies of match.                                    *)
(***************************************************************************)
\* C21: for every alias of the table whose mapped code is an indexed internal
\* code, match(alias) returns the row of that code with confidence 0.9 and
\* method mapped_internal_code, whatever other rows the catalog holds.
C21_AliasResolvedPerAlias ==
    \A k \in 1..Len(PRODUCT_NAME_MAPPINGS) :
        (/\ call.op = "match"
         /\ call.search_text = PRODUCT_NAME_MAPPINGS[k][1]
         /\ DictHas(internal_code_index, normalize(PRODUCT_NAME_MAPPINGS[k][2])))
        => /\ Found(returned)
           /\ returned.idx = DictGet(internal_code_index, normalize(PRODUCT_NAME_MAPPINGS[k][2]))
           /\ returned.confidence = Rat(9, 10)
           /\ returned.match_method = "mapped_internal_code"

\* the items of the external-code index that hold the normalized search text
\* or are held by it, of a row whose supplier holds the hint
HintedCandidates ==
    {n \in 1..Len(external_code_index) :
        /\ \/ Contains(SearchNormalized, external_code_index[n][1])
           \/ Contains(external_code_index[n][1], SearchNormalized)
        /\ Contains(lower(call.supplier_hint),
                    lower(str(motherbase[external_code_index[n][2]].Supplier)))}

\* C22: with a supplier hint, a result of method partial_external_code has
\* confidence 0.8 and is the row of the first candidate of the external-code
\* index whose supplier holds the hint, its normalized external code holding
\* the normalized search text or held by it; candidates of other suppliers
\* are passed over, and the later strategies are reached only when no
\* candidate is left.
C22_PartialExternalWithHint ==
    (/\ call.op = "match"
     /\ call.search_text # <<>>
     /\ call.supplier_hint # <<>>
     /\ returned # Raised)
    => /\ (Found(returned) /\ returned.match_method = "partial_external_code") =>
              /\ returned.confidence = Rat(8, 10)
              /\ HintedCandidates # {}
              /\ returned.idx = external_code_index[Least(HintedCandidates)][2]
              /\ Contains(lower(call.supplier_hint), lower(returned.supplier))
              /\ \/ Contains(SearchNormalized, normalize(returned.external_code))
                 \/ Contains(normalize(returned.external_code), SearchNormalized)
       /\ (\/ returned = None
           \/ returned.match_method \in {"simplified_id", "partial_simplified_id",
                                         "title_similarity"})
          => HintedCandidates = {}

\* a hinted call answered by the second candidate, the first being a row of
\* another supplier
C22_Witness ==
    /\ call.op = "match"
    /\ call.supplier_hint # <<>>
    /\ Found(returned)
    /\ returned.match_method = "partial_external_code"
    /\ Least(HintedCandidates) > 1
    /\ \/ Contains(SearchNormalized, external_code_index[1][1])
       \/ Contains(external_code_index[1][1], SearchNormalized)

\* one of the strategies before the sixth answers the call
EarlierStrategyAnswers ==
    \/ \E n \in 1..Len(expand_search_text(SearchText)) :
           DictHas(internal_code_index, normalize(expand_search_text(SearchText)[n]))
    \/ IsEanText /\ DictHas(ean_index, SearchText)
    \/ DictHas(external_code_index, SearchNormalized)
    \/ DictHas(internal_code_index, SearchNormalized)
    \/ \E n \in 1..Len(external_code_index) :
           PartialExternal(motherbase, external_code_index[n], SearchNormalized,
                           call.supplier_hint)
    \/ \E n \in 1..Len(simplified_id_index) :
           \/ SimplifiedSimilar(simplified_id_index[n], SearchNormalized)
           \/ SimplifiedContained(simplified_id_index[n], SearchNormalized)

\* similarity(searchText, title), plus 0.1 when the hint is in the row's supplier
BoostedScore(i) ==
    RatAdd(similarity(SearchText, str(motherbase[i].Title)),
           IF /\ call.supplier_hint # <<>>
              /\ Contains(lower(call.supplier_hint), lower(str(motherbase[i].Supplier)))
           THEN Rat(1, 10) ELSE Zero)

\* the rows no other row outscores
TopRows == {i \in RowIds : \A j \in RowIds : ~RatLess(BoostedScore(i), BoostedScore(j))}

\* C23: when no earlier strategy answers, match returns the first row of
\* maximum score (similarity of search text and title, plus 0.1 for a hinted
\* supplier) if that score exceeds 0.5, with confidence min(score, 0.7) and
\* method title_similarity, and returns none otherwise.
C23_TitleSimilarityFallback ==
    (/\ call.op = "match"
     /\ call.search_text # <<>>
     /\ ~EarlierStrategyAnswers)
    => IF RatLess(Rat(5, 10), BoostedScore(Least(TopRows)))
       THEN /\ Found(returned)
            /\ returned.idx = Least(TopRows)
            /\ returned.match_method = "title_similarity"
            /\ returned.confidence = RatMin(BoostedScore(Least(TopRows)), Rat(7, 10))
       ELSE returned = None

\* C27: every MatchResult returned by match has a confidence in [0, 1] that is
\* the fixed value of its method (1.0 exact_ean, 0.95 exact external or
\* internal code, 0.9 mapped alias, 0.8 partial external code, 0.75 and 0.7
\* simplified id), and for title_similarity a value in (0.5, 0.7], also when
\* the supplier boost raises the raw score above 0.7 or above 1.0.
C27_ConfidenceOfMethod ==
    (call.op = "match" /\ Found(returned))
    => /\ ~RatLess(returned.confidence, Zero)
       /\ ~RatLess(Rat(1, 1), returned.confidence)
       /\ CASE returned.match_method = "exact_ean" -> returned.confidence = Rat(1, 1)
            [] returned.match_method \in {"exact_external_code", "exact_internal_code"} ->
                   returned.confidence = Rat(95, 100)
            [] returned.match_method = "mapped_internal_code" ->
                   returned.confidence = Rat(9, 10)
            [] returned.match_method = "partial_external_code" ->
                   returned.confidence = Rat(8, 10)
            [] returned.match_method = "simplified_id" ->
                   returned.confidence = Rat(75, 100)
            [] returned.match_method = "partial_simplified_id" ->
                   returned.confidence = Rat(7, 10)
            [] returned.match_method = "title_similarity" ->
                   /\ RatLess(Rat(5, 10), returned.confidence)
                   /\ ~RatLess(Rat(7, 10), returned.confidence)
            [] OTHER -> FALSE

\* a title_similarity result whose boosted score is above 1.0
C27_Witness ==
    /\ call.op = "match"
    /\ Found(returned)
    /\ returned.match_method = "title_similarity"
    /\ call.supplier_hint # <<>>
    /\ RatLess(Rat(1, 1), BoostedScore(returned.idx))

\* C29: a search text that is not empty but whose normalized form is (no
\* letter or digit in it, as '---') never gets a code-based result: neither
\* an exact nor a partial external-code or internal-code one.
C29_NoCodeMatchForEmptyNormalized ==
    (/\ call.op = "match"
     /\ SearchText # <<>>
     /\ SearchNormalized = <<>>
     /\ Found(returned))
    => returned.match_method \notin {"mapped_internal_code", "exact_external_code",
                                     "exact_internal_code", "partial_external_code"}

(***************************************************************************)
(* Claims about the volume merge_ci_pl hands out.                           *)
(***************************************************************************)
\* C30: the merge counts no volume twice: for invoice items that come without
\* volume, the CBM of the merged items sums to no more than the CBM of the
\* packing-list items, also when several invoice items share a normalized
\* product code.
C30_VolumeNotDoubleCounted ==
    (/\ Len(merged) = Len(ci_before)
     /\ \A i \in 1..Len(ci_before) : RatIsZero(ci_before[i].cbm))
    => ~RatLess(TotalCbm(pl_items), TotalCbm(merged))

(***************************************************************************)
(* Claims about the rows the parsers make items from.                       *)
(***************************************************************************)
\* the rows below the header whose text holds 'total' in any letter case
TotalRows == {n \in 1..Len(document) : n > parsed.header_row /\ Holds(n, <<"t", "o", "t", "a", "l">>)}

\* the rows below the header, total rows left out, that name a TP- code
\* before row n
CodeRowsBefore(n) ==
    {k \in 1..(n - 1) :
        /\ k > parsed.header_row
        /\ k \notin TotalRows
        /\ re_search(<<TpCode>>, RowText(document[k])) # None}

Greatest(S) == CHOOSE n \in S : \A k \in S : k <= n

\* C26: no parser makes an item from a row whose text holds 'total' in any
\* letter case, and in the Toporek packing-list parser a total row does not
\* change the current product: an item of a row without code has the code of
\* the nearest row before it that is not a total row and names one.
C26_TotalRowsSkipped ==
    (parser # "none" /\ parsed # Raised)
    => /\ \A k \in 1..Len(parsed.items) : parsed.items[k].row \notin TotalRows
       /\ parser = "ToporekParser.parse_pl" =>
              \A k \in 1..Len(parsed.items) :
                  re_search(<<TpCode>>, RowText(document[parsed.items[k].row])) = None
                  => /\ CodeRowsBefore(parsed.items[k].row) # {}
                     /\ parsed.items[k].product_code =
                            re_search(<<TpCode>>,
                                      RowText(document[Greatest(CodeRowsBefore(
                                          parsed.items[k].row))])).group

\* the Toporek packing-list parser past a total row that names a code of its
\* own: the item of a later row without code has the code named before the
\* total row
C26_Witness ==
    /\ parser = "ToporekParser.parse_pl"
    /\ parsed # Raised
    /\ \E k \in 1..Len(parsed.items) : \E t \in TotalRows :
           /\ t < parsed.items[k].row
           /\ re_search(<<TpCode>>, RowText(document[t])) # None
           /\ re_search(<<TpCode>>, RowText(document[parsed.items[k].row])) = None
           /\ CodeRowsBefore(t) # {}
           /\ parsed.items[k].product_code #
                  re_search(<<TpCode>>, RowText(document[t])).group

\* the parsers that sort the numbers of a row into slots
SlotParsers == {"ToporekParser.parse_pl", "OuliParser.parse_ci", "OuliParser.parse_pl"}

\* the candidate numbers of row n in the order the parser called takes them
Candidates(n) ==
    IF parser = "OuliParser.parse_ci" THEN numbers(document[n])
    ELSE sorted_reverse(numbers(document[n]))

\* the slots of row n once the parser called has taken its first k candidates
SlotsAfter(n, k) ==
    CASE parser = "ToporekParser.parse_pl" ->
             PlSlots(SubSeq(Candidates(n), 1, k), NoSlots, 1000, 100)
      [] parser = "OuliParser.parse_pl" ->
             PlSlots(SubSeq(Candidates(n), 1, k), NoSlots, 500, 50)
      [] OTHER -> OuliCiSlots(SubSeq(Candidates(n), 1, k), NoSlots)

\* C24: in a parser's classification of the numbers of one row, a slot
\* (quantity, cartons, CBM or unit price) that has got its value from one
\* candidate is not changed by a later candidate of the row.
C24_SlotsIrreversible ==
    (parser \in SlotParsers /\ parsed.header_row > 0)
    => \A n \in (parsed.header_row + 1)..Len(document) :
           \A j \in 1..Len(Candidates(n)) : \A k \in 1..j :
               \A slot \in {"qty", "cartons", "cbm", "unit_price"} :
                   SlotsAfter(n, k)[slot] # None
                   => SlotsAfter(n, j)[slot] = SlotsAfter(n, k)[slot]

PlParsers == {"ToporekParser.parse_pl", "OuliParser.parse_pl"}

\* the product code the packing-list parser called reads in row n, None for none
PlCode(n) ==
    IF parser = "ToporekParser.parse_pl"
    THEN re_search(<<TpCode>>, RowText(document[n]))
    ELSE re_search(<<OlCode,
                     <<[chars |-> {"y"}, lo |-> 1, hi |-> 1],
                       [chars |-> Digits, lo |-> 3, hi |-> 3]>>
                     \o Literal(<<"/", "o", "l", "-">>)
                     \o <<[chars |-> Range(LowerLetters) \cup Digits, lo |-> 1, hi |-> 0]>>>>,
                   RowText(document[n]))

\* the data rows of the packing list: below the header, total rows left out
PlDataRows == {n \in 1..Len(document) : n > parsed.header_row /\ n \notin TotalRows}

\* the data rows before row n that carry a product code
PlCodeRowsBefore(n) == {k \in PlDataRows : k < n /\ PlCode(k) # None}

\* C25: in a packing-list parser a data row that has a quantity and no
\* product code of its own makes an item with the code of the nearest data
\* row before it that carried one, and no item when no code was seen yet;
\* every item has unit price 0.
C25_PlCodeCarriedForward ==
    (parser \in PlParsers /\ parsed.header_row > 0)
    => /\ \A n \in PlDataRows :
              (SlotsAfter(n, Len(Candidates(n))).qty # None /\ PlCode(n) = None)
              => IF PlCodeRowsBefore(n) = {}
                 THEN \A k \in 1..Len(parsed.items) : parsed.items[k].row # n
                 ELSE \E k \in 1..Len(parsed.items) :
                          /\ parsed.items[k].row = n
                          /\ parsed.items[k].product_code =
                                 PlCode(Greatest(PlCodeRowsBefore(n))).group
       /\ \A k \in 1..Len(parsed.items) : parsed.items[k].unit_price_usd = Zero

\* the parsers parse_document calls for the document, as invoice and as
\* packing list
ParsersOfDocument ==
    CASE detect_supplier_format(document) = "toporek" ->
             {"ToporekParser.parse_ci", "ToporekParser.parse_pl"}
      [] detect_supplier_format(document) = "ouli" ->
             {"OuliParser.parse_ci", "OuliParser.parse_pl"}
      [] OTHER -> {"GenericParser.parse"}

\* C28: every item of a parser that parse_document calls for the document has
\* a whole quantity above 0, whatever the cells of the quantity column hold,
\* fractions between 0 and 1 included; the items of an invoice have CBM 0.
C28_QuantityPositive ==
    (parser \in ParsersOfDocument /\ parsed # Raised)
    => \A k \in 1..Len(parsed.items) :
           /\ parsed.items[k].quantity \in Nat \ {0}
           /\ parser \notin PlParsers => parsed.items[k].cbm = Zero

====
